---- MODULE Spec2Model ----
(***************************************************************************)
(* Memory consolidation pipeline of Chat-Memory-Graph                      *)
(* (backend/src/app/memory).  One pipeline turn runs in one store          *)
(* transaction: session summary, evidence chunk, extraction, entity        *)
(* upsert, triple upsert and linking, summary merge, commit.               *)
(*                                                                         *)
(* Text values that the code normalises (names, types, relation labels)    *)
(* are sequences of one-character strings, so that strip() and lower()     *)
(* are computed.  Python's None is the value None below.  Times are a      *)
(* logical clock.  Row ids (uuid4) are fresh naturals.                     *)
(***************************************************************************)
EXTENDS Integers, Sequences, FiniteSets, TLC

\* ------------------------------------------------------------------------
\* Bounds
\* ------------------------------------------------------------------------
MaxTurns == 2
MaxChats == 2
MaxTurnsEntities == 2
MaxTurnsTriples == 2
MaxMentions == 2
MaxCands == 2
MaxTurnsRace == 3
MaxMessages == 5
MaxTurnsPairs == 2
MaxTurnsSummary == 2
MaxTurnsClient == 2
MaxTurnsInvalid == 2
MaxTurnsScores == 2
MaxTurnsChat == 1
MaxTurnsReobserve == 2
MaxTurnsRerun == 3
MaxRequests == 2
MaxStoreCalls == 5
MaxInterleaved == 3
\* ConversationStore(max_conversations), 1000 unless the caller says otherwise
max_conversations == 2
\* row ids a pipeline run can draw (uuid4 never collides)
IdsPerTurn == 16

\* request slots, each with its own store session
Slots == <<"w1", "w2">>
Workers == {Slots[i] : i \in 1..Len(Slots)}
Convs == {"c1", "c2"}

\* ------------------------------------------------------------------------
\* Values
\* ------------------------------------------------------------------------
None == <<"None">>
NoId == 0
EmptyMap == [i \in {} |-> 0]

Over(base, upd) == upd @@ base

\* x or ""
OrEmpty(s) == IF s = None THEN <<>> ELSE s

\* str.lower() on the alphabet of the model
LowerChar(c) ==
  IF c = "A" THEN "a"
  ELSE IF c = "B" THEN "b"
  ELSE IF c = "P" THEN "p"
  ELSE IF c = "Q" THEN "q"
  ELSE IF c = "R" THEN "r"
  ELSE c

Lower(s) == [i \in 1..Len(s) |-> LowerChar(s[i])]

RECURSIVE LStrip(_)
LStrip(s) == IF s # <<>> /\ Head(s) = " " THEN LStrip(Tail(s)) ELSE s

RECURSIVE RStrip(_)
RStrip(s) ==
  IF s # <<>> /\ s[Len(s)] = " " THEN RStrip(SubSeq(s, 1, Len(s) - 1)) ELSE s

\* str.strip()
Strip(s) == RStrip(LStrip(s))

\* list(set(...)): the elements of S, each once, in a fixed order
AliasOrder == <<"", "x", "y", "z">>
SetToList(S) == SelectSeq(AliasOrder, LAMBDA a : a \in S)
ListToSet(l) == {l[i] : i \in 1..Len(l)}
NoDup(l) == \A i, j \in 1..Len(l) : l[i] = l[j] => i = j

\* ------------------------------------------------------------------------
\* entities.py
\* ------------------------------------------------------------------------
make_entity_key(name, entity_type) ==
  Lower(Strip(OrEmpty(name))) \o <<"|">> \o Lower(Strip(OrEmpty(entity_type)))

\* name = (e.get("canonical_name") or "").strip()
MentionName(e) == Strip(OrEmpty(e.canonical_name))
MentionKey(e) == make_entity_key(MentionName(e), e.entity_type)
ValidMentions(data) == {i \in 1..Len(data) : MentionName(data[i]) # <<>>}

\* keys_needed[key] = {...}: a later mention with the same key replaces the
\* name under which the key is looked up
NamesNeeded(data) ==
  {MentionName(data[i]) : i \in
     {i \in ValidMentions(data) :
        \A j \in ValidMentions(data) :
           (j > i) => MentionKey(data[j]) # MentionKey(data[i])}}

\* db.query(EntityModel).filter(canonical_name.in_(names)).all()
QueryEntitiesByName(ent, names) ==
  {i \in DOMAIN ent : ent[i].canonical_name \in names}

EntityKeyOf(row) == make_entity_key(row.canonical_name, row.entity_type)

\* for ent in existing_entities: cache[key] = ent
\* (the result order of the query is the store's: when several loaded rows
\*  have one key, any of them can be the one kept)
CacheChoices(ent, names) ==
  LET found == QueryEntitiesByName(ent, names)
      keys == {EntityKeyOf(ent[i]) : i \in found}
  IN {c \in [keys -> found] : \A k \in keys : EntityKeyOf(ent[c[k]]) = k}

\* UniqueConstraint("canonical_name", "entity_type"): NULL types are distinct
UniqueEntityConflict(r1, r2) ==
  /\ r1.canonical_name = r2.canonical_name
  /\ r1.entity_type # None
  /\ r1.entity_type = r2.entity_type

\* ent.aliases = list(existing_aliases) after adding the non-empty new ones
MergeAliases(old, aliases) ==
  IF aliases = <<>> THEN old
  ELSE SetToList(ListToSet(old) \cup (ListToSet(aliases) \ {""}))

\* One iteration of the second loop of upsert_entities.
\* st = [ent |-> visible entity rows, cache |-> key -> id,
\*       nid |-> next fresh id, ok |-> no IntegrityError so far]
UpsertEntityStep(st, e, now) ==
  LET name == MentionName(e)
      key == MentionKey(e)
  IN IF ~st.ok \/ name = <<>> THEN st
     ELSE IF key \in DOMAIN st.cache THEN
       LET id == st.cache[key]
           row == [st.ent[id] EXCEPT !.last_seen_at = now,
                                     !.aliases = MergeAliases(@, e.aliases)]
       IN [st EXCEPT !.ent = Over(@, id :> row)]
     ELSE
       LET row == [id |-> st.nid, canonical_name |-> name,
                   entity_type |-> e.entity_type, aliases |-> e.aliases,
                   first_seen_at |-> now, last_seen_at |-> now]
       IN IF \E i \in DOMAIN st.ent : UniqueEntityConflict(row, st.ent[i])
          THEN [st EXCEPT !.ok = FALSE]
          ELSE [st EXCEPT !.ent = Over(@, st.nid :> row),
                          !.cache = Over(@, key :> st.nid),
                          !.nid = @ + 1]

RECURSIVE UpsertEntityLoop(_, _, _, _)
UpsertEntityLoop(st, data, i, now) ==
  IF i > Len(data) THEN st
  ELSE UpsertEntityLoop(UpsertEntityStep(st, data[i], now), data, i + 1, now)

\* upsert_entities(db, entities_data) on the rows visible to the session;
\* cache0 is the cache built from the query result
upsert_entities(ent, data, cache0, now, nid) ==
  IF ValidMentions(data) = {}
  THEN [ent |-> ent, cache |-> EmptyMap, nid |-> nid, ok |-> TRUE]
  ELSE UpsertEntityLoop(
         [ent |-> ent, cache |-> cache0, nid |-> nid, ok |-> TRUE],
         data, 1, now)

\* ------------------------------------------------------------------------
\* triples.py
\* ------------------------------------------------------------------------
\* (variant: the relation label is compared as written)
make_triple_key_exact(subject_id, relation_type, object_id) ==
  <<subject_id, relation_type, object_id>>

make_triple_key(subject_id, relation_type, object_id) ==
  <<subject_id, Lower(Strip(OrEmpty(relation_type))), object_id>>

\* (variant: a stored link is never found)
LinkExistsNever(links, tid, other) == FALSE

\* UniqueConstraint("triple_id", "session_summary_id") / ("triple_id", "chunk_id")
LinkExists(links, tid, other) ==
  \E i \in DOMAIN links : links[i].triple_id = tid /\ links[i].other_id = other

\* (variant: the link row is added without looking for an existing one)
ensure_triple_session_link_unchecked(st, tid, sid) ==
  [st EXCEPT !.links = Over(@, st.nid :> [triple_id |-> tid, other_id |-> sid]),
             !.nid = @ + 1]

\* ensure_triple_session_link: st = [links, nid, ok]
ensure_triple_session_link(st, tid, sid) ==
  IF LinkExists(st.links, tid, sid) THEN st
  ELSE [st EXCEPT !.links = Over(@, st.nid :> [triple_id |-> tid, other_id |-> sid]),
                  !.nid = @ + 1]

\* (variant: no chunk link is written)
ensure_triple_chunk_link_skipped(st, tid, cid) == st

\* ensure_triple_chunk_link: st = [links, nid, ok]
ensure_triple_chunk_link(st, tid, cid) ==
  IF LinkExists(st.links, tid, cid) THEN st
  ELSE [st EXCEPT !.links = Over(@, st.nid :> [triple_id |-> tid, other_id |-> cid]),
                  !.nid = @ + 1]

\* the store's INSERT of a link row: a second row for a linked pair is an
\* IntegrityError
InsertLinkChecked(before, after) ==
  [after EXCEPT !.ok =
     /\ before.ok
     /\ \A i \in DOMAIN after.links \ DOMAIN before.links :
          ~LinkExists(before.links, after.links[i].triple_id, after.links[i].other_id)]

\* entity_id_by_key = {make_entity_key(ent.canonical_name, ent.entity_type): ent.id
\*                     for ent in entity_cache.values()}
entity_id_by_key(ent, cache) ==
  LET ids == {cache[q] : q \in DOMAIN cache}
  IN [k \in {EntityKeyOf(ent[i]) : i \in ids} |->
        CHOOSE i \in ids : EntityKeyOf(ent[i]) = k]

SubjName(t) == Strip(OrEmpty(t.subject))
SubjKey(t) == make_entity_key(SubjName(t), t.subject_type)
ObjName(t) == Strip(OrEmpty(t.object))
ObjKey(t) == make_entity_key(ObjName(t), t.object_type)
RelType(t) == Strip(OrEmpty(t.relation_type))

\* first loop of upsert_triples_and_links
SubjectIds(data, idByKey) ==
  {idByKey[SubjKey(data[i])] : i \in
     {i \in 1..Len(data) : SubjName(data[i]) # <<>> /\ SubjKey(data[i]) \in DOMAIN idByKey}}

TripleKeyOf(row) ==
  make_triple_key(row.subject_entity_id, row.relation_type, row.object_entity_id)

\* (variant: no stored triple is preloaded)
TripleChoicesNone(tri, subjectIds) == {EmptyMap}

\* existing_by_key[triple_key] = triple over the preloaded rows (any of the
\* rows of one key can be the one kept)
TripleChoices(tri, subjectIds) ==
  LET found == {i \in DOMAIN tri : tri[i].subject_entity_id \in subjectIds}
      keys == {TripleKeyOf(tri[i]) : i \in found}
  IN {c \in [keys -> found] : \A k \in keys : TripleKeyOf(tri[c[k]]) = k}

\* isinstance(x, (int, float)); a JSON boolean is an int for Python
IsNum(x) == x.kind \in {"num", "bool"}
\* float(x) if isinstance(x, (int, float)) else None
ToFloat(x) == IF IsNum(x) THEN <<x.val>> ELSE <<>>

\* if isinstance(x, (int, float)): if old is None or x > old: old = float(x)
RaiseScore(old, x) ==
  IF IsNum(x) /\ (old = <<>> \/ x.val > old[1]) THEN <<x.val>> ELSE old

\* (variant: every given is_state counts as true)
ToBoolTrue(b) == TRUE

\* bool(is_state) of a JSON boolean
ToBool(b) == b = "true"

\* (variant: only the subject's resolution is tested)
PersistableResolved(t, idByKey) == SubjKey(t) \in DOMAIN idByKey

\* the candidate passes "if not subj_name or not relation_type: continue" and
\* "if not subj_id: continue"
Persistable(t, idByKey) ==
  /\ SubjName(t) # <<>>
  /\ RelType(t) # <<>>
  /\ SubjKey(t) \in DOMAIN idByKey

\* (variant: an object that names no entity of entity_id_by_key gets an id
\* that is no entity's)
CandObjIdUnresolved(t, idByKey) ==
  IF ObjName(t) = <<>> THEN NoId
  ELSE IF ObjKey(t) \in DOMAIN idByKey THEN idByKey[ObjKey(t)] ELSE -1

\* obj_id: None unless the object names an entity of entity_id_by_key
CandObjId(t, idByKey) ==
  IF ObjName(t) # <<>> /\ ObjKey(t) \in DOMAIN idByKey
  THEN idByKey[ObjKey(t)] ELSE NoId

\* triple_key of a candidate that is not skipped
CandKey(t, idByKey) ==
  make_triple_key(idByKey[SubjKey(t)], RelType(t), CandObjId(t, idByKey))

\* (variant: the stored row also takes the candidate's relation_text)
ReobserveRewrite(row, t, now) ==
  [row EXCEPT !.last_seen_at = now,
              !.relation_text = t.relation_text,
              !.importance = RaiseScore(@, t.importance),
              !.confidence = RaiseScore(@, t.confidence),
              !.is_state = IF t.is_state # "null" THEN ToBool(t.is_state) ELSE @]

\* "if triple:" the update of a stored row that the candidate matches
Reobserve(row, t, now) ==
  [row EXCEPT !.last_seen_at = now,
              !.importance = RaiseScore(@, t.importance),
              !.confidence = RaiseScore(@, t.confidence),
              !.is_state = IF t.is_state # "null" THEN ToBool(t.is_state) ELSE @]

\* One iteration of the main loop of upsert_triples_and_links.
\* st = [tri, byKey, sl, cl, nid, ok]
UpsertTripleStep(st, t, idByKey, sid, cid, now) ==
  IF ~st.ok \/ ~Persistable(t, idByKey) THEN st
  ELSE
    LET subj_id == idByKey[SubjKey(t)]
        obj_id == CandObjId(t, idByKey)
        key == CandKey(t, idByKey)
        reused == key \in DOMAIN st.byKey
        tid == IF reused THEN st.byKey[key] ELSE st.nid
        row == IF reused
               THEN Reobserve(st.tri[tid], t, now)
               ELSE [id |-> tid, subject_entity_id |-> subj_id,
                     object_entity_id |-> obj_id,
                     relation_type |-> RelType(t),
                     relation_text |-> t.relation_text,
                     importance |-> ToFloat(t.importance),
                     is_state |-> IF t.is_state # "null" THEN ToBool(t.is_state) ELSE FALSE,
                     confidence |-> ToFloat(t.confidence),
                     first_seen_at |-> now, last_seen_at |-> now]
        nid1 == IF reused THEN st.nid ELSE st.nid + 1
        s0 == [links |-> st.sl, nid |-> nid1, ok |-> TRUE]
        s1 == InsertLinkChecked(s0, ensure_triple_session_link(s0, tid, sid))
        c0 == [links |-> st.cl, nid |-> s1.nid, ok |-> s1.ok]
        c1 == InsertLinkChecked(c0, ensure_triple_chunk_link(c0, tid, cid))
    IN [tri |-> Over(st.tri, tid :> row),
        byKey |-> Over(st.byKey, key :> tid),
        sl |-> s1.links, cl |-> c1.links, nid |-> c1.nid, ok |-> c1.ok]

RECURSIVE UpsertTripleLoop(_, _, _, _, _, _, _)
UpsertTripleLoop(st, data, i, idByKey, sid, cid, now) ==
  IF i > Len(data) THEN st
  ELSE UpsertTripleLoop(UpsertTripleStep(st, data[i], idByKey, sid, cid, now),
                        data, i + 1, idByKey, sid, cid, now)

\* upsert_triples_and_links(db, triples_data, entity_cache, session_summary, chunk)
\* byKey0 is existing_by_key as built from the preloaded rows
upsert_triples_and_links(tri, sl, cl, data, idByKey, byKey0, sid, cid, now, nid) ==
  UpsertTripleLoop(
    [tri |-> tri, byKey |-> byKey0, sl |-> sl, cl |-> cl, nid |-> nid, ok |-> TRUE],
    data, 1, idByKey, sid, cid, now)

\* ------------------------------------------------------------------------
\* chunking.py
\* ------------------------------------------------------------------------
NoTime == 0

\* (variant: the first message of the role is taken, not the last)
FirstIndexOf(messages, role, from) ==
  IF \E i \in 1..from : messages[i].role = role
  THEN CHOOSE i \in 1..from :
         messages[i].role = role /\ \A j \in 1..(i - 1) : messages[j].role # role
  ELSE 0

RECURSIVE LastIndexOf(_, _, _)
\* for idx in range(from, -1, -1): if messages[idx].role == role: break
LastIndexOf(messages, role, from) ==
  IF from < 1 THEN 0
  ELSE IF messages[from].role = role THEN from
  ELSE LastIndexOf(messages, role, from - 1)

\* (variant: the last two messages are taken whatever their roles)
LastTwoMessages(messages) ==
  IF Len(messages) < 2 THEN <<>> ELSE <<Len(messages) - 1, Len(messages)>>

\* <<user index, assistant index>>, or <<>> when no pair can be formed
get_latest_user_assistant_pair(messages) ==
  IF Len(messages) < 2 THEN <<>>
  ELSE LET a == LastIndexOf(messages, "assistant", Len(messages))
       IN IF a = 0 THEN <<>>
          ELSE LET u == LastIndexOf(messages, "user", a - 1)
               IN IF u = 0 THEN <<>> ELSE <<u, a>>

\* create_memory_chunk: the row that is added and flushed
create_memory_chunk(c, sid, messages, pair, now, nid) ==
  [id |-> nid, conversation_id |-> c, session_summary_id |-> sid,
   text |-> <<"user: ", messages[pair[1]].content,
              "\nassistant: ", messages[pair[2]].content>>,
   timestamp |-> IF messages[pair[2]].timestamp # NoTime
                 THEN messages[pair[2]].timestamp ELSE now]

\* ------------------------------------------------------------------------
\* session_summary.py
\* ------------------------------------------------------------------------
SummaryOf(sum, c) == {i \in DOMAIN sum : sum[i].conversation_id = c}

\* (variant: a row is inserted whether or not the conversation has one)
create_session_summary(sum, c, messages, now, nid) ==
  LET row == [id |-> nid, conversation_id |-> c,
              start_time |-> IF messages # <<>> THEN messages[1].timestamp ELSE now,
              end_time |-> IF messages # <<>>
                           THEN messages[Len(messages)].timestamp ELSE now,
              summary_text |-> None, keywords |-> <<>>, themes |-> <<>>,
              updated_at |-> now]
  IN [sum |-> Over(sum, nid :> row), sid |-> nid, nid |-> nid + 1]

\* [sum |-> the table after the call, sid |-> id of the returned row, nid]
get_or_create_session_summary(sum, c, messages, now, nid) ==
  IF SummaryOf(sum, c) # {}
  THEN LET i == CHOOSE i \in SummaryOf(sum, c) : TRUE
           row == [sum[i] EXCEPT
                     !.end_time = IF messages # <<>>
                                  THEN messages[Len(messages)].timestamp ELSE @,
                     !.updated_at = now]
       IN [sum |-> Over(sum, i :> row), sid |-> i, nid |-> nid]
  ELSE LET row == [id |-> nid, conversation_id |-> c,
                   start_time |-> IF messages # <<>> THEN messages[1].timestamp ELSE now,
                   end_time |-> IF messages # <<>>
                                THEN messages[Len(messages)].timestamp ELSE now,
                   summary_text |-> None, keywords |-> <<>>, themes |-> <<>>,
                   updated_at |-> now]
       IN [sum |-> Over(sum, nid :> row), sid |-> nid, nid |-> nid + 1]

\* a JSON number in an extraction, d its decimal text (a JSON string is the
\* sequence of its characters, JSON null is None)
JsonNumber(d) == <<"#", d>>
IsJsonNumber(v) == v # <<>> /\ v[1] = "#"

\* `if summary_text:` - None, "" and 0 are falsy
Truthy(v) == v # None /\ v # <<>> /\ v # JsonNumber("0")

\* the value a Text column holds after a write: a number is kept as its text
ColumnText(v) == IF IsJsonNumber(v) THEN Tail(v) ELSE v

\* (variant: the extracted list replaces the stored one)
ReplaceWords(old, words) ==
  IF words = <<>> THEN old ELSE words

\* existing = set(old); add every truthy entry; list(existing)
MergeWords(old, words) ==
  IF words = <<>> THEN old
  ELSE SetToList(ListToSet(old) \cup (ListToSet(words) \ {""}))

\* (variant: the span ends at the time of the merge, not at the last message)
update_session_summary_until_now(row, summary_data, messages, now) ==
  [row EXCEPT
     !.summary_text = IF Truthy(summary_data.summary_text)
                      THEN ColumnText(summary_data.summary_text) ELSE @,
     !.keywords = MergeWords(@, summary_data.keywords),
     !.themes = MergeWords(@, summary_data.themes),
     !.start_time = IF messages # <<>> THEN messages[1].timestamp ELSE @,
     !.end_time = now,
     !.updated_at = now]

update_session_summary_from_extraction(row, summary_data, messages, now) ==
  [row EXCEPT
     !.summary_text = IF Truthy(summary_data.summary_text)
                      THEN ColumnText(summary_data.summary_text) ELSE @,
     !.keywords = MergeWords(@, summary_data.keywords),
     !.themes = MergeWords(@, summary_data.themes),
     !.start_time = IF messages # <<>> THEN messages[1].timestamp ELSE @,
     !.end_time = IF messages # <<>> THEN messages[Len(messages)].timestamp ELSE @,
     !.updated_at = now]

\* ------------------------------------------------------------------------
\* The store: committed tables, and per session the rows written (flushed)
\* in its open transaction
\* ------------------------------------------------------------------------
EmptyTx == [sum |-> EmptyMap, chunk |-> EmptyMap, ent |-> EmptyMap,
            tri |-> EmptyMap, sl |-> EmptyMap, cl |-> EmptyMap]

\* rows a session sees: the committed ones overlaid with its own writes
Visible(committed, t) ==
  [sum |-> Over(committed.sum, t.sum), chunk |-> Over(committed.chunk, t.chunk),
   ent |-> Over(committed.ent, t.ent), tri |-> Over(committed.tri, t.tri),
   sl |-> Over(committed.sl, t.sl), cl |-> Over(committed.cl, t.cl)]

\* rows of table `after` that are new or changed with respect to `before`
Written(before, after) ==
  [i \in {i \in DOMAIN after : i \notin DOMAIN before \/ after[i] # before[i]}
     |-> after[i]]

\* db.flush(): pending rows become part of the open transaction only
Flush(t, table, before, after) ==
  [t EXCEPT ![table] = Over(@, Written(before, after))]

\* (variant: the chunk row is left out of what is committed)
CommitTxNoChunk(committed, t) == Visible(committed, [t EXCEPT !.chunk = EmptyMap])

\* db.commit(): the transaction's rows become the committed ones
CommitTx(committed, t) == Visible(committed, t)

\* (variant: the except clause leaves the transaction's rows pending)
RollbackMissing(t) == t

\* db.rollback(): the transaction's rows are discarded
Rollback(t) == EmptyTx

\* uq_entity_name_type checked against rows committed by other sessions
\* since this session inserted its row
CommitConflict(committed, t) ==
  \E i \in DOMAIN t.ent \ DOMAIN committed.ent :
    \E j \in DOMAIN committed.ent : UniqueEntityConflict(t.ent[i], committed.ent[j])

\* ------------------------------------------------------------------------
\* State
\* ------------------------------------------------------------------------
\* ConversationStore.__init__: no conversations.  _conversations is the dict
\* in insertion order; updated_at holds, for every Conversation object made so
\* far (the n-th has id n), its updated_at: an object lives on in the hands of
\* its caller when the store has dropped it
EmptyStore == [_conversations |-> <<>>, updated_at |-> <<>>, now |-> 0, calls |-> 0]

VARIABLES
  conv,      \* conversation id -> its messages (owned by the chat layer)
  clock,     \* datetime.now()
  chats,     \* chat turns so far
  turns,     \* pipeline turns started so far
  db,        \* committed tables of the store
  pc,        \* per pipeline run: state of update_memory_after_turn
  turn,      \* per pipeline run: its local variables
  tx,        \* per pipeline run: the open transaction of its session
  outcome,   \* per pipeline run: "none", "returned" or "raised"
  err,       \* per pipeline run: the failure that ended it
  logged,    \* per pipeline run: level of the log record written at its end
  calls,     \* per pipeline run: its extraction, commit and rollback calls
  api,       \* the chat routes: stored conversations, latest id, last answer
  mem,       \* the in-memory ConversationStore and the Conversation objects
  inflight   \* chat requests being served: each handler's locals and answer

vars == <<conv, clock, chats, turns, db, pc, turn, tx, outcome, err, logged, calls, api, mem, inflight>>

\* str(uuid.uuid4()): ids of different runs never collide
FirstId(n) == n * IdsPerTurn + 1

EmptySummaryData == [summary_text |-> None, keywords |-> <<>>, themes |-> <<>>]
NoExtraction ==
  [entities |-> <<>>, triples |-> <<>>, session_summary |-> EmptySummaryData]

\* ------------------------------------------------------------------------
\* memory_client.py: what extract_memory makes of the model's response
\* ------------------------------------------------------------------------
Keys == {"session_summary", "entities", "triples"}

\* the JSON type a top-level key is defaulted to
DefaultKind(k) == IF k = "session_summary" THEN "object" ELSE "array"

\* a response: top is what json.loads makes of it ("invalid": no JSON text,
\* "nocontent": no text at all, "nochoices": no choice in the response, else
\* the JSON type of its top level); for a top-level object, kinds gives the
\* JSON type of the value of each key ("missing": no such key) and the other
\* fields the value of a key whose value has the expected type
Response(top, kinds, e, t, s) ==
  [top |-> top, kinds |-> kinds, entities |-> e, triples |-> t, session_summary |-> s]

NoKinds == [k \in Keys |-> "missing"]
NoResponse == Response("none", NoKinds, <<>>, <<>>, EmptySummaryData)

\* data.setdefault(key, {} or [])
SetDefault(kinds) ==
  [k \in Keys |-> IF kinds[k] = "missing" THEN DefaultKind(k) ELSE kinds[k]]

\* (variant: a value of the wrong type is returned as it is)
KeepKinds(kinds) == kinds

\* if not isinstance(data[key], list or dict): data[key] = [] or {}
NormaliseKinds(kinds) ==
  [k \in Keys |-> IF kinds[k] # DefaultKind(k) THEN DefaultKind(k) ELSE kinds[k]]

\* the value returned for key k: the response's value if it has the expected
\* type, else the empty default
ValueOf(raw, k, empty) == IF raw.kinds[k] = DefaultKind(k) THEN raw[k] ELSE empty

\* lines 137-168: [ok, kinds and data of the returned object]
extract_memory(raw) ==
  IF raw.top # "object"
  THEN [ok |-> FALSE, kinds |-> NoKinds, data |-> NoExtraction]
  ELSE [ok |-> TRUE,
        kinds |-> NormaliseKinds(SetDefault(raw.kinds)),
        data |-> [entities |-> ValueOf(raw, "entities", <<>>),
                  triples |-> ValueOf(raw, "triples", <<>>),
                  session_summary |-> ValueOf(raw, "session_summary", EmptySummaryData)]]

\* ------------------------------------------------------------------------
\* models/chat.py, routes_chat.py: requests and what the routes keep
\* ------------------------------------------------------------------------
NoConv == "none"

\* ChatRequest: message is None or a string, messages is None or a list (None
\* and the empty list are both the empty sequence here: the code tests
\* "self.messages and len(self.messages) > 0"), system_prompt is not given
ChatRequest(endpoint, message, messages, conversation_id) ==
  [endpoint |-> endpoint, message |-> message, messages |-> messages,
   conversation_id |-> conversation_id]

NoRequest == ChatRequest("none", None, <<>>, NoConv)

\* created: the ConversationModel rows; latest: _latest_conversation_id;
\* req, status, reply, conv: the last request and its answer; llm: calls of
\* llm.chat so far; history: the messages the last call was given
IdleApi ==
  [created |-> {}, latest |-> NoConv, req |-> NoRequest, status |-> 0,
   reply |-> "none", conv |-> NoConv, llm |-> 0, history |-> <<>>]

IdleTurn ==
  [conv |-> "none", pair |-> <<>>, now |-> NoTime, base |-> NoId, nid |-> NoId, sid |-> NoId,
   cid |-> NoId, extraction |-> NoExtraction, cache |-> EmptyMap,
   raw |-> NoResponse, shape |-> NoKinds]

\* the locals of a run that has ended; what the run was about is kept
Returned(t) == [IdleTurn EXCEPT !.conv = t.conv]

InTry == {"PairFound", "SummaryReady", "ChunkCreated", "Responded", "Extracted",
          "EntitiesUpserted", "TriplesLinked", "SummaryMerged", "CommitDone"}
Terminal == {"NoPair", "Committed", "Failed", "Raised"}
Active(w) == pc[w] \in InTry

\* chat requests are served by coroutines of one event loop; a handler that
\* awaits llm.chat is suspended while others run
Handlers == {"r1", "r2"}
IdleHandler ==
  [stage |-> "idle", endpoint |-> "none", named |-> NoConv, target |-> NoConv,
   loaded |-> <<>>, user |-> "none", status |-> 0]
\* completed: the conversations of the turns that produced a reply, in the
\* order in which they did
NoneInFlight == [handler |-> [r \in Handlers |-> IdleHandler], completed |-> <<>>]

Init ==
  /\ conv = [c \in Convs |-> <<>>]
  /\ clock = 1
  /\ chats = 0
  /\ turns = 0
  /\ db = EmptyTx
  /\ pc = [w \in Workers |-> "Idle"]
  /\ turn = [w \in Workers |-> IdleTurn]
  /\ tx = [w \in Workers |-> EmptyTx]
  /\ outcome = [w \in Workers |-> "none"]
  /\ err = [w \in Workers |-> "none"]
  /\ logged = [w \in Workers |-> "none"]
  /\ calls = [w \in Workers |-> <<>>]
  /\ api = IdleApi
  /\ mem = EmptyStore
  /\ inflight = NoneInFlight

\* ------------------------------------------------------------------------
\* The chat layer: one chat turn appends the user message and the reply
\* (routes_chat.py new_chat / continue_chat); turns of one conversation are
\* serial
\* ------------------------------------------------------------------------
ChatTurn(c, bound, contents) ==
  /\ chats < bound
  /\ \A w \in Workers : Active(w) => turn[w].conv # c
  /\ \E u \in contents :
       conv' = [conv EXCEPT ![c] = @ \o
                 << [role |-> "user", content |-> u, timestamp |-> clock],
                    [role |-> "assistant", content |-> "ok", timestamp |-> clock + 1] >>]
  /\ clock' = clock + 2
  /\ chats' = chats + 1
  /\ UNCHANGED <<api, mem, inflight, turns, db, pc, turn, tx, outcome, err, logged, calls>>

\* what the n-th message of a role says (messages of one role differ)
Says(role, n) ==
  IF role = "user" THEN <<"hi", "bye">>[((n - 1) % 2) + 1]
  ELSE IF role = "assistant" THEN <<"hello", "goodbye">>[((n - 1) % 2) + 1]
  ELSE "sys"

\* Conversation.add_message(ChatMessage(role, content)): the message is
\* appended with timestamp datetime.now()
AddMessage(c, bound, roles) ==
  /\ Len(conv[c]) < bound
  /\ \A w \in Workers : Active(w) => turn[w].conv # c
  /\ \E r \in roles :
       LET n == Cardinality({i \in 1..Len(conv[c]) : conv[c][i].role = r}) + 1
       IN conv' = [conv EXCEPT ![c] =
                    Append(@, [role |-> r, content |-> Says(r, n), timestamp |-> clock])]
  /\ clock' = clock + 1
  /\ UNCHANGED <<api, mem, inflight, chats, turns, db, pc, turn, tx, outcome, err, logged, calls>>

\* ChatRequest.user_message: the message, else the content of the last user
\* message of messages, else of its last message, else ValueError
user_message(req) ==
  IF req.message # None THEN [ok |-> TRUE, value |-> req.message[1]]
  ELSE IF Len(req.messages) > 0
  THEN LET users == {i \in 1..Len(req.messages) : req.messages[i].role = "user"}
       IN IF users # {}
          THEN [ok |-> TRUE,
                value |-> req.messages[CHOOSE i \in users : \A j \in users : j <= i].content]
          ELSE [ok |-> TRUE, value |-> req.messages[Len(req.messages)].content]
  ELSE [ok |-> FALSE, value |-> ""]

HTTPException(status_code) == [kind |-> "HTTPException", status_code |-> status_code]
AppError(status_code) == [kind |-> "AppError", status_code |-> status_code]

\* the except clauses of both routes: "except AppError as e" answers with
\* e.status_code, "except Exception" (HTTPException is one) with 500
Handled(exc) == IF exc.kind = "AppError" THEN exc.status_code ELSE 500

\* llm.chat(conversation.messages): the reply, or an AppError
Reply(text) == [kind |-> "reply", status_code |-> 200, text |-> text]
LlmOutcomes == {Reply("ok"), Reply("no"), AppError(502), AppError(429)}

\* role and content of each message
Contents(messages) ==
  [i \in 1..Len(messages) |-> [role |-> messages[i].role, content |-> messages[i].content]]

\* DbConversationStore.update_conversation: a message is added unless a stored
\* message of the conversation has its role and content
update_conversation(stored, messages) ==
  LET isNew(m) == \A i \in 1..Len(stored) :
                    stored[i].role # m.role \/ stored[i].content # m.content
  IN stored \o SelectSeq(messages, isNew)

\* the request is answered with an error raised inside the try block
Refuse(req, exc, called) ==
  /\ api' = [api EXCEPT !.req = req, !.status = Handled(exc), !.reply = "none",
                        !.conv = NoConv, !.llm = @ + called]
  /\ UNCHANGED <<conv, clock>>

\* lines 266-281 (186-200): the user message is added, llm.chat is awaited,
\* the reply is added, the conversation is stored and becomes the latest
ChatOn(req, c, user, created) ==
  \E out \in LlmOutcomes :
    IF out.kind = "reply"
    THEN /\ conv' = [conv EXCEPT ![c] = update_conversation(@,
                       << [role |-> "user", content |-> user, timestamp |-> clock],
                          [role |-> "assistant", content |-> out.text, timestamp |-> clock + 1] >>)]
         /\ clock' = clock + 2
         /\ api' = [api EXCEPT !.created = created, !.latest = c, !.req = req,
                               !.status = 200, !.reply = out.text, !.conv = c, !.llm = @ + 1,
                               !.history = Append(Contents(conv[c]),
                                                  [role |-> "user", content |-> user])]
    ELSE /\ api' = [api EXCEPT !.created = created, !.req = req,
                               !.status = Handled(out), !.reply = "none",
                               !.conv = NoConv, !.llm = @ + 1,
                               !.history = Append(Contents(conv[c]),
                                                  [role |-> "user", content |-> user])]
         /\ UNCHANGED <<conv, clock>>

\* POST /newchat (lines 142-207); a new conversation gets an unused id
new_chat(requests, bound) ==
  /\ chats < bound
  /\ chats' = chats + 1
  /\ \E req \in requests :
       /\ req.endpoint = "newchat"
       /\ LET um == user_message(req)
          IN IF ~um.ok THEN Refuse(req, HTTPException(422), 0)
             ELSE \E c \in Convs \ api.created :
                    /\ conv[c] = <<>>
                    /\ \A w \in Workers : Active(w) => turn[w].conv # c
                    /\ ChatOn(req, c, um.value, api.created \cup {c})
  /\ UNCHANGED <<mem, inflight, turns, db, pc, turn, tx, outcome, err, logged, calls>>

\* POST /continue (lines 210-288)
continue_chat(requests, bound) ==
  /\ chats < bound
  /\ chats' = chats + 1
  /\ \E req \in requests :
       /\ req.endpoint = "continue"
       /\ LET um == user_message(req)
              conversation_id == IF req.conversation_id # NoConv
                                 THEN req.conversation_id ELSE api.latest
          IN IF ~um.ok THEN Refuse(req, HTTPException(422), 0)
             ELSE IF conversation_id = NoConv THEN Refuse(req, HTTPException(400), 0)
             ELSE IF conversation_id \notin api.created
             THEN Refuse(req, HTTPException(404), 0)
             ELSE /\ \A w \in Workers : Active(w) => turn[w].conv # conversation_id
                  /\ ChatOn(req, conversation_id, um.value, api.created)
  /\ UNCHANGED <<mem, inflight, turns, db, pc, turn, tx, outcome, err, logged, calls>>

\* ------------------------------------------------------------------------
\* pipeline.py: update_memory_after_turn
\* ------------------------------------------------------------------------
\* the except clauses: log at error level, db.rollback(); an exception of
\* rollback itself is not caught.  made: the calls of the failing statement
Except(w, kind, rollbackOk, made) ==
  /\ turn' = [turn EXCEPT ![w] = Returned(@)]
  /\ calls' = [calls EXCEPT ![w] = @ \o made \o <<"rollback">>]
  /\ err' = [err EXCEPT ![w] = kind]
  /\ logged' = [logged EXCEPT ![w] = "error"]
  /\ IF rollbackOk
     THEN /\ tx' = [tx EXCEPT ![w] = Rollback(@)]
          /\ pc' = [pc EXCEPT ![w] = "Failed"]
          /\ outcome' = [outcome EXCEPT ![w] = "returned"]
     ELSE /\ tx' = tx
          /\ pc' = [pc EXCEPT ![w] = "Raised"]
          /\ outcome' = [outcome EXCEPT ![w] = "raised"]

\* a new request is served in the first slot that is not running a pipeline
FreeSlot(w) ==
  \E i \in 1..Len(Slots) :
    /\ Slots[i] = w
    /\ ~Active(w)
    /\ \A j \in 1..(i - 1) : Active(Slots[j])

\* lines 29-36: pair selection, outside the try block
Start(w, c, bound) ==
  /\ FreeSlot(w)
  /\ turns < bound
  /\ \A v \in Workers : Active(v) => turn[v].conv # c
  /\ turns' = turns + 1
  /\ clock' = clock + 1
  /\ LET pair == get_latest_user_assistant_pair(conv[c])
         t0 == [IdleTurn EXCEPT !.conv = c, !.pair = pair, !.now = clock,
                                !.base = FirstId(turns), !.nid = FirstId(turns)]
     IN /\ turn' = [turn EXCEPT ![w] = IF pair = <<>> THEN Returned(t0) ELSE t0]
        /\ IF pair = <<>>
           THEN /\ pc' = [pc EXCEPT ![w] = "NoPair"]
                /\ outcome' = [outcome EXCEPT ![w] = "returned"]
                /\ logged' = [logged EXCEPT ![w] = "info"]
           ELSE /\ pc' = [pc EXCEPT ![w] = "PairFound"]
                /\ outcome' = [outcome EXCEPT ![w] = "none"]
                /\ logged' = [logged EXCEPT ![w] = "none"]
  /\ tx' = [tx EXCEPT ![w] = EmptyTx]
  /\ err' = [err EXCEPT ![w] = "none"]
  /\ calls' = [calls EXCEPT ![w] = <<>>]
  /\ UNCHANGED <<api, mem, inflight, conv, chats, db>>

\* line 40
LoadSummary(w) ==
  /\ pc[w] = "PairFound"
  /\ LET v == Visible(db, tx[w])
         r == get_or_create_session_summary(v.sum, turn[w].conv, conv[turn[w].conv],
                                            turn[w].now, turn[w].nid)
     IN /\ tx' = [tx EXCEPT ![w] = Flush(@, "sum", v.sum, r.sum)]
        /\ turn' = [turn EXCEPT ![w].sid = r.sid, ![w].nid = r.nid]
  /\ pc' = [pc EXCEPT ![w] = "SummaryReady"]
  /\ UNCHANGED <<api, mem, inflight, conv, clock, chats, turns, db, outcome, err, logged, calls>>

\* line 43
CreateChunk(w) ==
  /\ pc[w] = "SummaryReady"
  /\ LET row == create_memory_chunk(turn[w].conv, turn[w].sid, conv[turn[w].conv],
                                    turn[w].pair, turn[w].now, turn[w].nid)
     IN /\ tx' = [tx EXCEPT ![w].chunk = Over(@, row.id :> row)]
        /\ turn' = [turn EXCEPT ![w].cid = row.id, ![w].nid = @ + 1]
  /\ pc' = [pc EXCEPT ![w] = "ChunkCreated"]
  /\ UNCHANGED <<api, mem, inflight, conv, clock, chats, turns, db, outcome, err, logged, calls>>

\* lines 46-54: the extraction call returned a result
Extract(w, extractions) ==
  /\ pc[w] = "ChunkCreated"
  /\ \E x \in extractions : turn' = [turn EXCEPT ![w].extraction = x]
  /\ pc' = [pc EXCEPT ![w] = "Extracted"]
  /\ calls' = [calls EXCEPT ![w] = Append(@, "extract")]
  /\ UNCHANGED <<api, mem, inflight, conv, clock, chats, turns, db, tx, outcome, err, logged>>

\* memory_client.py lines 121-135: the model answered the extraction request
Respond(w, responses) ==
  /\ pc[w] = "ChunkCreated"
  /\ \E raw \in responses : turn' = [turn EXCEPT ![w].raw = raw]
  /\ pc' = [pc EXCEPT ![w] = "Responded"]
  /\ calls' = [calls EXCEPT ![w] = Append(@, "extract")]
  /\ UNCHANGED <<api, mem, inflight, conv, clock, chats, turns, db, tx, outcome, err, logged>>

\* (variant: after a response that cannot be used the request is made again)
ParseRetry(w) ==
  /\ pc[w] = "Responded"
  /\ LET r == extract_memory(turn[w].raw)
     IN IF r.ok
        THEN /\ turn' = [turn EXCEPT ![w].extraction = r.data, ![w].shape = r.kinds]
             /\ pc' = [pc EXCEPT ![w] = "Extracted"]
        ELSE /\ turn' = [turn EXCEPT ![w].raw = NoResponse]
             /\ pc' = [pc EXCEPT ![w] = "ChunkCreated"]
  /\ UNCHANGED <<api, mem, inflight, conv, clock, chats, turns, db, tx, outcome, err, logged, calls>>

\* memory_client.py lines 137-168 and pipeline.py lines 52-54: the response
\* is parsed; an AppError ends the turn in the except clause
Parse(w) ==
  /\ pc[w] = "Responded"
  /\ LET r == extract_memory(turn[w].raw)
     IN IF r.ok
        THEN /\ turn' = [turn EXCEPT ![w].extraction = r.data, ![w].shape = r.kinds]
             /\ pc' = [pc EXCEPT ![w] = "Extracted"]
             /\ UNCHANGED <<tx, outcome, err, logged, calls>>
        ELSE \E rollbackOk \in BOOLEAN :
               Except(w, "MalformedExtraction", rollbackOk, <<>>)
  /\ UNCHANGED <<api, mem, inflight, conv, clock, chats, turns, db>>

\* line 57
UpsertEntities(w) ==
  /\ pc[w] = "Extracted"
  /\ LET v == Visible(db, tx[w])
         data == turn[w].extraction.entities
     IN \E cache0 \in CacheChoices(v.ent, NamesNeeded(data)) :
          LET r == upsert_entities(v.ent, data, cache0, turn[w].now, turn[w].nid)
          IN IF r.ok
             THEN /\ tx' = [tx EXCEPT ![w] = Flush(@, "ent", v.ent, r.ent)]
                  /\ turn' = [turn EXCEPT ![w].cache = r.cache, ![w].nid = r.nid]
                  /\ pc' = [pc EXCEPT ![w] = "EntitiesUpserted"]
                  /\ UNCHANGED <<outcome, err, logged, calls>>
             ELSE \E rollbackOk \in BOOLEAN :
                    Except(w, "IntegrityError", rollbackOk, <<>>)
  /\ UNCHANGED <<api, mem, inflight, conv, clock, chats, turns, db>>

\* lines 60-66
UpsertTriples(w) ==
  /\ pc[w] = "EntitiesUpserted"
  /\ LET v == Visible(db, tx[w])
         data == turn[w].extraction.triples
         idByKey == entity_id_by_key(v.ent, turn[w].cache)
     IN \E byKey0 \in TripleChoices(v.tri, SubjectIds(data, idByKey)) :
          LET r == upsert_triples_and_links(v.tri, v.sl, v.cl, data, idByKey, byKey0,
                                            turn[w].sid, turn[w].cid, turn[w].now,
                                            turn[w].nid)
          IN IF r.ok
             THEN /\ tx' = [tx EXCEPT ![w] =
                             Flush(Flush(Flush(@, "tri", v.tri, r.tri),
                                         "sl", v.sl, r.sl), "cl", v.cl, r.cl)]
                  /\ turn' = [turn EXCEPT ![w].nid = r.nid]
                  /\ pc' = [pc EXCEPT ![w] = "TriplesLinked"]
                  /\ UNCHANGED <<outcome, err, logged, calls>>
             ELSE \E rollbackOk \in BOOLEAN :
                    Except(w, "IntegrityError", rollbackOk, <<>>)
  /\ UNCHANGED <<api, mem, inflight, conv, clock, chats, turns, db>>

\* lines 69-73
MergeSummary(w) ==
  /\ pc[w] = "TriplesLinked"
  /\ LET v == Visible(db, tx[w])
         row == update_session_summary_from_extraction(
                  v.sum[turn[w].sid], turn[w].extraction.session_summary,
                  conv[turn[w].conv], turn[w].now)
     IN tx' = [tx EXCEPT ![w] = Flush(@, "sum", v.sum, Over(v.sum, turn[w].sid :> row))]
  /\ pc' = [pc EXCEPT ![w] = "SummaryMerged"]
  /\ UNCHANGED <<api, mem, inflight, conv, clock, chats, turns, db, turn, outcome, err, logged, calls>>

\* line 76: db.commit()
Commit(w) ==
  /\ pc[w] = "SummaryMerged"
  /\ IF CommitConflict(db, tx[w])
     THEN /\ \E rollbackOk \in BOOLEAN :
               Except(w, "IntegrityError", rollbackOk, <<"commit">>)
          /\ db' = db
     ELSE /\ db' = CommitTx(db, tx[w])
          /\ tx' = [tx EXCEPT ![w] = EmptyTx]
          /\ pc' = [pc EXCEPT ![w] = "CommitDone"]
          /\ calls' = [calls EXCEPT ![w] = Append(@, "commit")]
          /\ UNCHANGED <<turn, outcome, err, logged>>
  /\ UNCHANGED <<api, mem, inflight, conv, clock, chats, turns>>

\* lines 78-86: the completion record is logged (it reads session_summary.id
\* and chunk.id, which the commit has expired, from the store) and the
\* function returns
LogComplete(w) ==
  /\ pc[w] = "CommitDone"
  /\ pc' = [pc EXCEPT ![w] = "Committed"]
  /\ outcome' = [outcome EXCEPT ![w] = "returned"]
  /\ logged' = [logged EXCEPT ![w] = "info"]
  /\ turn' = [turn EXCEPT ![w] = Returned(@)]
  /\ UNCHANGED <<api, mem, inflight, conv, clock, chats, turns, db, tx, err, calls>>

\* failures a step can end with: of the store in every step that uses it,
\* of the extraction call while the run is suspended on it
FailKinds(p) ==
  IF p = "ChunkCreated"
  THEN {"ProviderError", "MalformedExtraction", "ExtractionTimeout"}
  ELSE IF p = "Responded" THEN {}
  ELSE {"StoreError"}

\* lines 88-101: AppError and Exception are caught
Fail(w) ==
  /\ pc[w] \in InTry
  /\ \E kind \in FailKinds(pc[w]) : \E rollbackOk \in BOOLEAN :
       Except(w, kind, rollbackOk, IF pc[w] = "ChunkCreated" THEN <<"extract">>
                                   ELSE IF pc[w] = "SummaryMerged" THEN <<"commit">>
                                   ELSE <<>>)
  /\ UNCHANGED <<api, mem, inflight, conv, clock, chats, turns, db>>

\* the task is cancelled while suspended on the extraction call:
\* asyncio.CancelledError is a BaseException, no except clause matches it
Cancel(w) ==
  /\ pc[w] = "ChunkCreated"
  /\ pc' = [pc EXCEPT ![w] = "Raised"]
  /\ outcome' = [outcome EXCEPT ![w] = "raised"]
  /\ err' = [err EXCEPT ![w] = "Cancelled"]
  /\ turn' = [turn EXCEPT ![w] = Returned(@)]
  /\ calls' = [calls EXCEPT ![w] = Append(@, "extract")]
  /\ UNCHANGED <<api, mem, inflight, conv, clock, chats, turns, db, tx, logged>>

\* ------------------------------------------------------------------------
\* Extraction results (the language model's answer is any of them)
\* ------------------------------------------------------------------------
Mention(n, t, a) == [canonical_name |-> n, entity_type |-> t, aliases |-> a]

Null == [kind |-> "null", val |-> 0]
Num(v) == [kind |-> "num", val |-> v]
Text == [kind |-> "str", val |-> 0]
\* a JSON boolean; scores are counted in tenths, float(True) is 1.0
Bool(b) == [kind |-> "bool", val |-> IF b THEN 10 ELSE 0]

Cand(s, st, o, ot, r, imp, state, conf) ==
  [subject |-> s, subject_type |-> st, object |-> o, object_type |-> ot,
   relation_type |-> r, relation_text |-> "text", importance |-> imp,
   is_state |-> state, confidence |-> conf]

SummaryData(t, k, th) == [summary_text |-> t, keywords |-> k, themes |-> th]

Results(entityBatches, tripleBatches, summaries) ==
  {[entities |-> e, triples |-> t, session_summary |-> s] :
     e \in entityBatches, t \in tripleBatches, s \in summaries}

\* ------------------------------------------------------------------------
\* Spec: pipeline runs of different conversations interleave
\* ------------------------------------------------------------------------
Extractions ==
  Results({ <<>>,
            <<Mention(<<"A">>, <<"P">>, <<>>)>>,
            <<Mention(<<"A">>, None, <<"x">>)>> },
          { <<>>,
            <<Cand(<<"A">>, <<"P">>, None, None, <<"R">>, Num(4), "true", Null)>> },
          { SummaryData(<<"s">>, <<"x">>, <<>>) })

Next ==
  \/ \E c \in Convs : ChatTurn(c, MaxChats, {"hi"})
  \/ \E w \in Workers, c \in Convs : Start(w, c, MaxTurns)
  \/ \E w \in Workers : LoadSummary(w)
  \/ \E w \in Workers : CreateChunk(w)
  \/ \E w \in Workers : Extract(w, Extractions)
  \/ \E w \in Workers : UpsertEntities(w)
  \/ \E w \in Workers : UpsertTriples(w)
  \/ \E w \in Workers : MergeSummary(w)
  \/ \E w \in Workers : Commit(w)
  \/ \E w \in Workers : LogComplete(w)
  \/ \E w \in Workers : Fail(w)
  \/ \E w \in Workers : Cancel(w)

Spec == Init /\ [][Next]_vars

\* sequences over pool of length at most n
RECURSIVE Batches(_, _)
Batches(pool, n) ==
  IF n = 0 THEN {<<>>}
  ELSE LET shorter == Batches(pool, n - 1)
       IN shorter \cup {Append(b, x) : b \in {b \in shorter : Len(b) = n - 1}, x \in pool}

\* ------------------------------------------------------------------------
\* SpecEntities: turns one after another, entity mentions that differ in
\* letter case, surrounding whitespace, type and aliases
\* ------------------------------------------------------------------------
MentionPool ==
  { Mention(<<"A">>, <<"P">>, <<>>),
    Mention(<<"a">>, <<"p">>, <<"x">>),
    Mention(<<" ", "A">>, <<"p", " ">>, <<"y", "x">>),
    Mention(<<"A">>, <<"Q">>, <<"y", "y">>),
    Mention(<<"A">>, None, <<"", "x">>),
    Mention(<<" ">>, <<"P">>, <<"x">>) }

ExtractionsEntities ==
  Results(Batches(MentionPool, MaxMentions),
          { <<Cand(<<"A">>, <<"Q">>, <<"A">>, <<"P">>, <<"R">>, Null, "null", Null)>> },
          { EmptySummaryData })

NextEntities ==
  \/ ChatTurn("c1", MaxChats, {"hi"})
  \/ Start("w1", "c1", MaxTurnsEntities)
  \/ LoadSummary("w1")
  \/ CreateChunk("w1")
  \/ Extract("w1", ExtractionsEntities)
  \/ UpsertEntities("w1")
  \/ UpsertTriples("w1")
  \/ MergeSummary("w1")
  \/ Commit("w1")
  \/ LogComplete("w1")
  \/ Fail("w1")
  \/ Cancel("w1")

SpecEntities == Init /\ [][NextEntities]_vars

\* ------------------------------------------------------------------------
\* SpecTriples: turns one after another, candidate triples that differ in
\* subject, object, relation label and scores
\* ------------------------------------------------------------------------
CandPool ==
  { Cand(<<"A">>, <<"P">>, <<"B">>, <<"P">>, <<"R">>, Num(4), "true", Num(4)),
    Cand(<<"a">>, <<"p">>, <<"B">>, <<"P">>, <<"r", " ">>, Num(9), "null", Num(2)),
    Cand(<<"A">>, <<"P">>, <<"B">>, <<"P">>, <<"R">>, Text, "false", Bool(TRUE)),
    Cand(<<"A">>, <<"P">>, <<"Q">>, None, <<"R">>, Null, "true", Num(2)),
    Cand(<<"Q">>, <<"P">>, <<"B">>, <<"P">>, <<"R">>, Num(4), "true", Num(4)) }

ExtractionsTriples ==
  Results({ <<Mention(<<"A">>, <<"P">>, <<>>), Mention(<<"B">>, <<"P">>, <<>>)>> },
          Batches(CandPool, MaxCands),
          { EmptySummaryData })

NextTriples ==
  \/ ChatTurn("c1", MaxChats, {"hi"})
  \/ Start("w1", "c1", MaxTurnsTriples)
  \/ LoadSummary("w1")
  \/ CreateChunk("w1")
  \/ Extract("w1", ExtractionsTriples)
  \/ UpsertEntities("w1")
  \/ UpsertTriples("w1")
  \/ MergeSummary("w1")
  \/ Commit("w1")
  \/ LogComplete("w1")
  \/ Fail("w1")
  \/ Cancel("w1")

SpecTriples == Init /\ [][NextTriples]_vars

\* ------------------------------------------------------------------------
\* SpecRace: a turn, then turns of different conversations that interleave;
\* every extraction names the same entity, with or without the same triple
\* ------------------------------------------------------------------------
ExtractionsRace ==
  Results({ <<Mention(<<"A">>, <<"P">>, <<>>)>> },
          { <<>>,
            <<Cand(<<"A">>, <<"P">>, None, None, <<"R">>, Num(4), "true", Null)>> },
          { EmptySummaryData })

NextRace ==
  \/ \E c \in Convs : ChatTurn(c, MaxChats, {"hi"})
  \/ \E w \in Workers, c \in Convs : Start(w, c, MaxTurnsRace)
  \/ \E w \in Workers : LoadSummary(w)
  \/ \E w \in Workers : CreateChunk(w)
  \/ \E w \in Workers : Extract(w, ExtractionsRace)
  \/ \E w \in Workers : UpsertEntities(w)
  \/ \E w \in Workers : UpsertTriples(w)
  \/ \E w \in Workers : MergeSummary(w)
  \/ \E w \in Workers : Commit(w)
  \/ \E w \in Workers : LogComplete(w)
  \/ \E w \in Workers : Fail(w)
  \/ \E w \in Workers : Cancel(w)

SpecRace == Init /\ [][NextRace]_vars

\* ------------------------------------------------------------------------
\* SpecPairs: a conversation grown message by message with any role, and
\* turns on it one after another
\* ------------------------------------------------------------------------
ExtractionsPairs ==
  Results({ <<>> }, { <<>> }, { SummaryData(<<"s">>, <<"x">>, <<>>) })

NextPairs ==
  \/ AddMessage("c1", MaxMessages, {"system", "user", "assistant"})
  \/ Start("w1", "c1", MaxTurnsPairs)
  \/ LoadSummary("w1")
  \/ CreateChunk("w1")
  \/ Extract("w1", ExtractionsPairs)
  \/ UpsertEntities("w1")
  \/ UpsertTriples("w1")
  \/ MergeSummary("w1")
  \/ Commit("w1")
  \/ LogComplete("w1")
  \/ Fail("w1")
  \/ Cancel("w1")

SpecPairs == Init /\ [][NextPairs]_vars

\* ------------------------------------------------------------------------
\* SpecSummary: turns one after another, session summaries that differ in
\* summary text (none, empty, text, number), keywords and themes
\* ------------------------------------------------------------------------
SummaryPool ==
  { SummaryData(t, k, th) :
      t \in { None, <<>>, <<"s">>, <<"t">>, JsonNumber("7"), JsonNumber("0") },
      k \in { <<>>, <<"x">>, <<"", "y">>, <<"y", "x", "y">> },
      th \in { <<>>, <<"">>, <<"z">> } }

ExtractionsSummary == Results({ <<>> }, { <<>> }, SummaryPool)

NextSummary ==
  \/ ChatTurn("c1", MaxChats, {"hi"})
  \/ Start("w1", "c1", MaxTurnsSummary)
  \/ LoadSummary("w1")
  \/ CreateChunk("w1")
  \/ Extract("w1", ExtractionsSummary)
  \/ UpsertEntities("w1")
  \/ UpsertTriples("w1")
  \/ MergeSummary("w1")
  \/ Commit("w1")
  \/ LogComplete("w1")
  \/ Fail("w1")
  \/ Cancel("w1")

SpecSummary == Init /\ [][NextSummary]_vars

\* ------------------------------------------------------------------------
\* SpecClient: turns one after another; the model's response is any text, any
\* JSON value, or an object whose keys are missing or of any JSON type
\* ------------------------------------------------------------------------
JsonKinds == {"missing", "null", "string", "array", "object"}

Responses ==
  { Response(top, NoKinds, <<>>, <<>>, EmptySummaryData) :
      top \in {"invalid", "nocontent", "nochoices", "null", "string", "number", "array"} }
  \cup
  { Response("object", kinds,
             <<Mention(<<"A">>, <<"P">>, <<>>), Mention(<<"B">>, <<"P">>, <<>>)>>,
             <<Cand(<<"A">>, <<"P">>, <<"B">>, <<"P">>, <<"R">>, Num(4), "true", Null),
               Cand(<<"A">>, <<"P">>, <<"Q">>, None, <<"R">>, Null, "null", Null)>>,
             SummaryData(<<"s">>, <<"x">>, <<>>)) :
      kinds \in [Keys -> JsonKinds] }

NextClient ==
  \/ ChatTurn("c1", MaxChats, {"hi"})
  \/ Start("w1", "c1", MaxTurnsClient)
  \/ LoadSummary("w1")
  \/ CreateChunk("w1")
  \/ Respond("w1", Responses)
  \/ Parse("w1")
  \/ UpsertEntities("w1")
  \/ UpsertTriples("w1")
  \/ MergeSummary("w1")
  \/ Commit("w1")
  \/ LogComplete("w1")
  \/ Fail("w1")
  \/ Cancel("w1")

SpecClient == Init /\ [][NextClient]_vars

\* ------------------------------------------------------------------------
\* SpecInvalid: turns one after another, batches that mix usable items with
\* mentions without a name and candidates without a subject or a relation
\* ------------------------------------------------------------------------
NamedA == Mention(<<"A">>, <<"P">>, <<"x">>)
NoName == Mention(<<>>, <<"P">>, <<"x">>)
BlankName == Mention(<<" ">>, <<"P">>, <<"y">>)

Usable == Cand(<<"A">>, <<"P">>, None, None, <<"R">>, Num(4), "true", Null)
NoSubject == Cand(<<>>, <<"P">>, None, None, <<"R">>, Num(4), "true", Null)
NoRelation == Cand(<<"A">>, <<"P">>, None, None, <<>>, Num(4), "true", Null)
BlankRelation == Cand(<<"A">>, <<"P">>, None, None, <<" ">>, Num(4), "true", Null)

ExtractionsInvalid ==
  Results({ <<>>, <<NamedA>>, <<NoName>>, <<BlankName, NamedA>>,
            <<NamedA, NoName>>, <<NoName, BlankName>> },
          { <<>>, <<Usable>>, <<NoSubject, Usable>>, <<Usable, NoRelation>>,
            <<BlankRelation, Usable>>, <<NoRelation, NoSubject>> },
          { EmptySummaryData })

NextInvalid ==
  \/ ChatTurn("c1", MaxChats, {"hi"})
  \/ Start("w1", "c1", MaxTurnsInvalid)
  \/ LoadSummary("w1")
  \/ CreateChunk("w1")
  \/ Extract("w1", ExtractionsInvalid)
  \/ UpsertEntities("w1")
  \/ UpsertTriples("w1")
  \/ MergeSummary("w1")
  \/ Commit("w1")
  \/ LogComplete("w1")
  \/ Fail("w1")
  \/ Cancel("w1")

SpecInvalid == Init /\ [][NextInvalid]_vars

\* ------------------------------------------------------------------------
\* SpecScores: turns one after another, one candidate triple whose scores are
\* any JSON number (in tenths), a boolean, a string or null
\* ------------------------------------------------------------------------
ScorePool == {Num(4), Num(15), Num(-2), Bool(TRUE), Text, Null}

ExtractionsScores ==
  Results({ <<Mention(<<"A">>, <<"P">>, <<>>)>> },
          { <<Cand(<<"A">>, <<"P">>, None, None, <<"R">>, imp, "null", conf)>> :
              imp \in ScorePool, conf \in ScorePool },
          { EmptySummaryData })

NextScores ==
  \/ ChatTurn("c1", MaxChats, {"hi"})
  \/ Start("w1", "c1", MaxTurnsScores)
  \/ LoadSummary("w1")
  \/ CreateChunk("w1")
  \/ Extract("w1", ExtractionsScores)
  \/ UpsertEntities("w1")
  \/ UpsertTriples("w1")
  \/ MergeSummary("w1")
  \/ Commit("w1")
  \/ LogComplete("w1")
  \/ Fail("w1")
  \/ Cancel("w1")

SpecScores == Init /\ [][NextScores]_vars

\* ------------------------------------------------------------------------
\* SpecChat: chat requests of every shape; pipeline runs are started by
\* whoever imports update_memory_after_turn (no route does)
\* ------------------------------------------------------------------------
Requests ==
  { ChatRequest(e, m, ms, id) :
      e \in {"newchat", "continue"},
      m \in {None, <<"hi">>},
      ms \in { <<>>, << [role |-> "user", content |-> "yo"] >> },
      id \in {NoConv, "c1", "c9"} }

ExtractionsChat ==
  Results({ <<Mention(<<"A">>, <<"P">>, <<>>)>> }, { <<>> },
          { SummaryData(<<"s">>, <<"x">>, <<>>) })

NextChat ==
  \/ new_chat(Requests, MaxRequests)
  \/ continue_chat(Requests, MaxRequests)
  \/ \E c \in Convs : Start("w1", c, MaxTurnsChat)
  \/ LoadSummary("w1")
  \/ CreateChunk("w1")
  \/ Extract("w1", ExtractionsChat)
  \/ UpsertEntities("w1")
  \/ UpsertTriples("w1")
  \/ MergeSummary("w1")
  \/ Commit("w1")
  \/ LogComplete("w1")
  \/ Fail("w1")
  \/ Cancel("w1")

SpecChat == Init /\ [][NextChat]_vars

\* a run that was started is driven to its end by the event loop; requests
\* arrive, and update_memory_after_turn is called, when their callers choose
PipelineStep(w) ==
  \/ LoadSummary(w)
  \/ CreateChunk(w)
  \/ Extract(w, ExtractionsChat)
  \/ UpsertEntities(w)
  \/ UpsertTriples(w)
  \/ MergeSummary(w)
  \/ Commit(w)
  \/ LogComplete(w)

SpecChatLive == SpecChat /\ WF_vars(PipelineStep("w1"))

\* ------------------------------------------------------------------------
\* SpecReobserve: turns one after another; candidates of one subject and
\* relation whose objects name no entity, with different paraphrases, next
\* to a candidate with a declared object and one of another subject
\* ------------------------------------------------------------------------
Says1(t, text) == [t EXCEPT !.relation_text = text]

LikesQ == Says1(Cand(<<"A">>, <<"P">>, <<"Q">>, None, <<"R">>, Num(4), "true", Num(4)), "q")
LikesZ == Says1(Cand(<<"A">>, <<"P">>, <<"Z">>, None, <<"r">>, Num(9), "false", Null), "z")
LikesB == Says1(Cand(<<"A">>, <<"P">>, <<"B">>, <<"P">>, <<"R">>, Num(2), "null", Num(9)), "b")
BLikes == Says1(Cand(<<"B">>, <<"P">>, None, None, <<"R">>, Null, "true", Num(2)), "n")

ExtractionsReobserve ==
  Results({ <<Mention(<<"A">>, <<"P">>, <<>>), Mention(<<"B">>, <<"P">>, <<>>)>> },
          { <<>>, <<LikesQ>>, <<LikesZ>>, <<LikesQ, LikesZ>>, <<LikesZ, LikesQ>>,
            <<LikesB>>, <<LikesB, LikesQ>>, <<BLikes, LikesZ>> },
          { EmptySummaryData })

NextReobserve ==
  \/ ChatTurn("c1", MaxChats, {"hi"})
  \/ Start("w1", "c1", MaxTurnsReobserve)
  \/ LoadSummary("w1")
  \/ CreateChunk("w1")
  \/ Extract("w1", ExtractionsReobserve)
  \/ UpsertEntities("w1")
  \/ UpsertTriples("w1")
  \/ MergeSummary("w1")
  \/ Commit("w1")
  \/ LogComplete("w1")
  \/ Fail("w1")
  \/ Cancel("w1")

SpecReobserve == Init /\ [][NextReobserve]_vars

\* every statement of a run that was started returns or raises: the event
\* loop resumes the coroutine until it has ended.  update_memory_after_turn
\* is called, and chat turns arrive, when their callers choose
RunStep(w) ==
  \/ LoadSummary(w)
  \/ CreateChunk(w)
  \/ Extract(w, ExtractionsReobserve)
  \/ UpsertEntities(w)
  \/ UpsertTriples(w)
  \/ MergeSummary(w)
  \/ Commit(w)
  \/ LogComplete(w)
  \/ Fail(w)
  \/ Cancel(w)

SpecReobserveLive == SpecReobserve /\ WF_vars(RunStep("w1"))

\* ------------------------------------------------------------------------
\* SpecRerun: turns one after another on two conversations; the extraction
\* result is a function of the chunk text the model is given, so a run on an
\* unchanged pair gets the result of the run before
\* ------------------------------------------------------------------------
ExtractionOf(chunk_text) ==
  IF chunk_text[2] = "hi"
  THEN [entities |-> << Mention(<<"A">>, <<"P">>, <<"y", "x">>),
                        Mention(<<" ", "A">>, <<"p", " ">>, <<"x", "">>),
                        Mention(<<"B">>, <<"P">>, <<"y", "y">>) >>,
        triples |-> <<LikesQ, LikesZ, LikesB>>,
        session_summary |-> SummaryData(<<"s">>, <<"y", "x", "y">>, <<"z">>)]
  ELSE [entities |-> << Mention(<<"a">>, <<"p">>, <<"x">>) >>,
        triples |-> << Cand(<<"a">>, <<"p">>, None, None, <<"R">>, Bool(TRUE), "true", Text) >>,
        session_summary |-> SummaryData(<<"t">>, <<"x">>, <<>>)]

\* chunk.text of the run's chunk
ChunkText(w) ==
  IF turn[w].cid \in DOMAIN tx[w].chunk THEN tx[w].chunk[turn[w].cid].text
  ELSE <<"user: ", "", "\nassistant: ", "">>

NextRerun ==
  \/ \E c \in Convs : ChatTurn(c, MaxChats, {"hi", "yo"})
  \/ \E c \in Convs : Start("w1", c, MaxTurnsRerun)
  \/ LoadSummary("w1")
  \/ CreateChunk("w1")
  \/ Extract("w1", {ExtractionOf(ChunkText("w1"))})
  \/ UpsertEntities("w1")
  \/ UpsertTriples("w1")
  \/ MergeSummary("w1")
  \/ Commit("w1")
  \/ LogComplete("w1")
  \/ Fail("w1")
  \/ Cancel("w1")

SpecRerun == Init /\ [][NextRerun]_vars

\* ------------------------------------------------------------------------
\* core/conversation_store.py and conversation/memory_store.py: the in-memory
\* ConversationStore (both files hold the same class)
\* ------------------------------------------------------------------------
Ids(conversations) == {conversations[i] : i \in 1..Len(conversations)}

\* sorted(self._conversations.items(), key=updated_at) is stable: position i
\* comes before position j
SortsBefore(conversations, updated_at, i, j) ==
  \/ updated_at[conversations[i]] < updated_at[conversations[j]]
  \/ updated_at[conversations[i]] = updated_at[conversations[j]] /\ i < j

\* the first to_remove entries of the sorted list are deleted
_enforce_limit(conversations, updated_at) ==
  IF Len(conversations) > max_conversations
  THEN LET to_remove == Len(conversations) - max_conversations
           Place(i) == Cardinality({j \in 1..Len(conversations) :
                                      SortsBefore(conversations, updated_at, j, i)})
           removed == {conversations[i] : i \in {k \in 1..Len(conversations) :
                                                   Place(k) < to_remove}}
       IN SelectSeq(conversations, LAMBDA id : id \notin removed)
  ELSE conversations

\* datetime.now() between two readings stands still or advances
Tick == {0, 1}

\* Conversation() gets a new id and updated_at = now; with a system prompt
\* add_message sets updated_at again; the object is inserted, the limit
\* enforced
create_conversation(bound) ==
  /\ mem.calls < bound
  /\ \E tick \in Tick :
       LET id == Len(mem.updated_at) + 1
           now == mem.now + tick
           updated_at == Append(mem.updated_at, now)
       IN mem' = [_conversations |-> _enforce_limit(Append(mem._conversations, id),
                                                    updated_at),
                  updated_at |-> updated_at, now |-> now, calls |-> mem.calls + 1]
  /\ UNCHANGED <<api, inflight, conv, clock, chats, turns, db, pc, turn, tx, outcome, err, logged, calls>>

\* Conversation.add_message on an object its caller holds: the store holds
\* the same object
add_message(bound) ==
  /\ mem.calls < bound
  /\ \E id \in 1..Len(mem.updated_at), tick \in Tick :
       mem' = [mem EXCEPT !.updated_at[id] = mem.now + tick, !.now = mem.now + tick,
                          !.calls = @ + 1]
  /\ UNCHANGED <<api, inflight, conv, clock, chats, turns, db, pc, turn, tx, outcome, err, logged, calls>>

\* self._conversations[conversation.id] = conversation: a key the dict has
\* keeps its place, another is added at the end
update_conversation_in_memory(bound) ==
  /\ mem.calls < bound
  /\ \E id \in 1..Len(mem.updated_at) :
       mem' = [mem EXCEPT !._conversations = IF id \in Ids(@) THEN @ ELSE Append(@, id),
                          !.calls = @ + 1]
  /\ UNCHANGED <<api, inflight, conv, clock, chats, turns, db, pc, turn, tx, outcome, err, logged, calls>>

delete_conversation(bound) ==
  /\ mem.calls < bound
  /\ \E conversation_id \in 1..(Len(mem.updated_at) + 1) :
       mem' = [mem EXCEPT !._conversations = SelectSeq(@, LAMBDA id : id # conversation_id),
                          !.calls = @ + 1]
  /\ UNCHANGED <<api, inflight, conv, clock, chats, turns, db, pc, turn, tx, outcome, err, logged, calls>>

NextStore ==
  \/ create_conversation(MaxStoreCalls)
  \/ add_message(MaxStoreCalls)
  \/ update_conversation_in_memory(MaxStoreCalls)
  \/ delete_conversation(MaxStoreCalls)

SpecStore == Init /\ [][NextStore]_vars

\* ------------------------------------------------------------------------
\* routes_chat.py: new_chat and continue_chat as coroutines.  A handler runs
\* without interruption up to 'await llm.chat' and from the reply to its end
\* ------------------------------------------------------------------------
\* line 244: conversation_id = req.conversation_id or _latest_conversation_id
\* (None and the empty string are falsy)
TargetOfLatest(conversation_id, latest) ==
  IF latest # NoConv THEN latest ELSE conversation_id

TargetOf(conversation_id, latest) ==
  IF conversation_id \notin {NoConv, ""} THEN conversation_id ELSE latest

\* the handler ends with an error answer before it has called the model
Refused(r, endpoint, named, exc) ==
  inflight' = [inflight EXCEPT !.handler[r] =
                 [IdleHandler EXCEPT !.stage = "refused", !.endpoint = endpoint,
                                     !.named = named, !.status = Handled(exc)]]

Suspend(r, endpoint, named, c, user) ==
  inflight' = [inflight EXCEPT !.handler[r] =
                 [stage |-> "awaiting", endpoint |-> endpoint, named |-> named,
                  target |-> c, loaded |-> Contents(conv[c]), user |-> user,
                  status |-> 0]]

\* new_chat lines 162-192: the message is validated, a conversation is
\* created and committed, the user message added, llm.chat awaited
begin_new_chat(r, bound) ==
  /\ inflight.handler[r].stage # "awaiting"
  /\ chats < bound
  /\ chats' = chats + 1
  /\ \E message \in {None, <<"hi">>}, named \in {NoConv, "c1"} :
       LET req == ChatRequest("newchat", message, <<>>, named)
           um == user_message(req)
       IN IF ~um.ok
          THEN Refused(r, "newchat", named, HTTPException(422)) /\ api' = api
          ELSE \E c \in Convs \ api.created :
                 /\ conv[c] = <<>>
                 /\ Suspend(r, "newchat", named, c, um.value)
                 /\ api' = [api EXCEPT !.created = @ \cup {c}]
  /\ UNCHANGED <<mem, conv, clock, turns, db, pc, turn, tx, outcome, err, logged, calls>>

\* continue_chat lines 231-272: the message is validated, the conversation
\* id chosen, the conversation loaded, the user message added, llm.chat
\* awaited
begin_continue_chat(r, bound) ==
  /\ inflight.handler[r].stage # "awaiting"
  /\ chats < bound
  /\ chats' = chats + 1
  /\ \E message \in {None, <<"hi">>}, named \in {NoConv, "", "c1", "c2", "c9"} :
       LET req == ChatRequest("continue", message, <<>>, named)
           um == user_message(req)
           conversation_id == TargetOf(named, api.latest)
       IN IF ~um.ok THEN Refused(r, "continue", named, HTTPException(422))
          ELSE IF conversation_id = NoConv
          THEN Refused(r, "continue", named, HTTPException(400))
          ELSE IF conversation_id \notin api.created
          THEN Refused(r, "continue", named, HTTPException(404))
          ELSE Suspend(r, "continue", named, conversation_id, um.value)
  /\ UNCHANGED <<api, mem, conv, clock, turns, db, pc, turn, tx, outcome, err, logged, calls>>

\* lines 272-281 (192-200): llm.chat returns or raises; with a reply the
\* reply is added, update_conversation stores the messages whose role and
\* content the handler did not load, and the conversation becomes the latest
finish_chat(r) ==
  /\ inflight.handler[r].stage = "awaiting"
  /\ LET h == inflight.handler[r]
     IN \E out \in LlmOutcomes :
          IF out.kind = "reply"
          THEN /\ conv' = [conv EXCEPT ![h.target] =
                            @ \o SelectSeq(
                              << [role |-> "user", content |-> h.user, timestamp |-> clock],
                                 [role |-> "assistant", content |-> out.text,
                                  timestamp |-> clock + 1] >>,
                              LAMBDA m : \A i \in 1..Len(h.loaded) :
                                           h.loaded[i].role # m.role
                                           \/ h.loaded[i].content # m.content)]
               /\ clock' = clock + 2
               /\ api' = [api EXCEPT !.latest = h.target, !.llm = @ + 1]
               /\ inflight' = [inflight EXCEPT !.handler[r].stage = "answered",
                                               !.handler[r].status = 200,
                                               !.completed = Append(@, h.target)]
          ELSE /\ api' = [api EXCEPT !.llm = @ + 1]
               /\ inflight' = [inflight EXCEPT !.handler[r].stage = "refused",
                                               !.handler[r].status = Handled(out)]
               /\ UNCHANGED <<conv, clock>>
  /\ UNCHANGED <<mem, chats, turns, db, pc, turn, tx, outcome, err, logged, calls>>

NextInterleaved ==
  \/ \E r \in Handlers : begin_new_chat(r, MaxInterleaved)
  \/ \E r \in Handlers : begin_continue_chat(r, MaxInterleaved)
  \/ \E r \in Handlers : finish_chat(r)

SpecInterleaved == Init /\ [][NextInterleaved]_vars

\* ------------------------------------------------------------------------
\* Properties
\* ------------------------------------------------------------------------
Tables == {"sum", "chunk", "ent", "tri", "sl", "cl"}

\* every run keeps within the ids it can draw
IdsSuffice ==
  \A w \in Workers : Active(w) => turn[w].nid <= turn[w].base + IdsPerTurn

\* the step of w is the execution of update_memory_after_turn's statement at p
\* (to its end or to an IntegrityError), not a failure injected from outside
StepAt(w, p) == pc[w] = p /\ pc'[w] # p /\ err'[w] \in {"none", "IntegrityError"}

\* C1: a turn is atomic.  A step that ends a run as failed leaves the
\* committed store as it is, and a run that returns after a failure has no
\* row pending in its session; the committed store changes only by the commit
\* of one run, which makes durable all rows that run wrote (its chunk and its
\* summary among them) and nothing else.
AtomicTurn ==
  [][ /\ \A w \in Workers :
           (pc[w] \in InTry /\ pc'[w] \in {"Failed", "Raised"}) => db' = db
      /\ \A w \in Workers : pc'[w] = "Failed" => tx'[w] = EmptyTx
      /\ (db' # db) =>
           \E w \in Workers :
             /\ pc[w] = "SummaryMerged" /\ pc'[w] = "CommitDone"
             /\ turn[w].cid \in DOMAIN tx[w].chunk
             /\ turn[w].sid \in DOMAIN tx[w].sum
             /\ \A f \in Tables :
                  /\ DOMAIN db'[f] = DOMAIN db[f] \cup DOMAIN tx[w][f]
                  /\ \A i \in DOMAIN tx[w][f] : db'[f][i] = tx[w][f][i]
                  /\ \A i \in DOMAIN db[f] \ DOMAIN tx[w][f] : db'[f][i] = db[f][i]
    ]_vars

\* a run failed by a malformed extraction after its summary and chunk were
\* written, next to a committed run; nothing of the failed run is pending
WitnessAtomicTurn ==
  \E w, v \in Workers :
    /\ pc[w] = "Failed" /\ err[w] = "MalformedExtraction" /\ tx[w] = EmptyTx
    /\ pc[v] = "Committed"
    /\ DOMAIN db.chunk # {} /\ DOMAIN db.ent # {} /\ DOMAIN db.tri # {}
    /\ DOMAIN db.sl # {} /\ DOMAIN db.cl # {}

\* C2: update_memory_after_turn never raises to its caller, whatever step
\* fails, a failure of the rollback included.
NeverRaises == \A w \in Workers : outcome[w] # "raised"

\* C3: an extraction call that is cancelled is handled like any other step
\* failure: the writes are rolled back, the error is logged and the call
\* returns without an exception.
CancelHandledAsFailure ==
  \A w \in Workers :
    err[w] = "Cancelled" =>
      /\ pc[w] = "Failed"
      /\ outcome[w] = "returned"
      /\ logged[w] = "error"
      /\ tx[w] = EmptyTx

\* C4: a run whose entity insert loses the race against a concurrent run is
\* not failed by the unique-constraint conflict (the resolver re-reads the
\* row): no run ends with an IntegrityError.
InsertRaceRecovered == \A w \in Workers : err[w] # "IntegrityError"

\* C5: no two committed Entity rows have the same canonical key.
EntityKeyUnique ==
  \A i, j \in DOMAIN db.ent :
    EntityKeyOf(db.ent[i]) = EntityKeyOf(db.ent[j]) => i = j

\* C6: upsert_entities for a mention whose canonical key is already stored
\* returns normally, inserts no new row with that key and maps the key to a
\* row that was stored before.
KeyNormalization ==
  [][ \A w \in Workers :
        StepAt(w, "Extracted") =>
          LET before == Visible(db, tx[w]).ent
              after == Visible(db', tx'[w]).ent
              data == turn[w].extraction.entities
          IN \A m \in ValidMentions(data) :
               LET k == MentionKey(data[m])
                   stored == {i \in DOMAIN before : EntityKeyOf(before[i]) = k}
               IN stored # {} =>
                    /\ pc'[w] = "EntitiesUpserted"
                    /\ k \in DOMAIN turn'[w].cache
                    /\ turn'[w].cache[k] \in stored
                    /\ \A i \in DOMAIN after \ DOMAIN before : EntityKeyOf(after[i]) # k
    ]_vars

\* C7: after any upsert_entities call an entity's aliases hold no alias
\* twice (those given at its insert included), hold every alias they held
\* before and every non-empty alias given by a re-mention.
AliasesGrowWithoutDuplicates ==
  [][ \A w \in Workers :
        (StepAt(w, "Extracted") /\ pc'[w] = "EntitiesUpserted") =>
          LET before == Visible(db, tx[w]).ent
              after == Visible(db', tx'[w]).ent
              data == turn[w].extraction.entities
              cache == turn'[w].cache
          IN /\ \A i \in DOMAIN after : NoDup(after[i].aliases)
             /\ \A i \in DOMAIN before :
                  ListToSet(before[i].aliases) \subseteq ListToSet(after[i].aliases)
             /\ \A m \in ValidMentions(data) :
                  cache[MentionKey(data[m])] \in DOMAIN before =>
                    ListToSet(data[m].aliases) \ {""}
                      \subseteq ListToSet(after[cache[MentionKey(data[m])]].aliases)
    ]_vars

\* a stored score (None or a float) is at most another one
ScoreLeq(a, b) == a = <<>> \/ (b # <<>> /\ a[1] <= b[1])
SetMax(S) == CHOOSE x \in S : \A y \in S : y <= x

\* C8: importance and confidence never decrease.  After an upsert the stored
\* value of a triple is the maximum of the value stored before and the
\* numeric values given for its key; a null or non-numeric value (a string,
\* a JSON boolean) changes nothing.  Across commits the stored values never
\* decrease.
MonotonicScores ==
  [][ /\ \A i \in DOMAIN db.tri :
           /\ ScoreLeq(db.tri[i].importance, db'.tri[i].importance)
           /\ ScoreLeq(db.tri[i].confidence, db'.tri[i].confidence)
      /\ \A w \in Workers :
           (StepAt(w, "EntitiesUpserted") /\ pc'[w] = "TriplesLinked") =>
             LET before == Visible(db, tx[w]).tri
                 after == Visible(db', tx'[w]).tri
                 data == turn[w].extraction.triples
                 idByKey == entity_id_by_key(Visible(db, tx[w]).ent, turn[w].cache)
                 given(k, f) ==
                   {data[j][f].val : j \in
                      {j \in 1..Len(data) :
                         /\ Persistable(data[j], idByKey)
                         /\ CandKey(data[j], idByKey) = k
                         /\ data[j][f].kind = "num"}}
             IN \A i \in DOMAIN after : \A f \in {"importance", "confidence"} :
                  LET old == IF i \in DOMAIN before THEN before[i][f] ELSE <<>>
                      vals == given(TripleKeyOf(after[i]), f) \cup ListToSet(old)
                  IN /\ ScoreLeq(old, after[i][f])
                     /\ after[i][f] = IF vals = {} THEN <<>> ELSE <<SetMax(vals)>>
    ]_vars

LinksOf(links, tid, other) ==
  {i \in DOMAIN links : links[i].triple_id = tid /\ links[i].other_id = other}

\* C9: linking is idempotent.  The triple step never fails on a link that
\* exists; it leaves every existing link row as it is, and after it every
\* triple it resolved has exactly one link row to the session summary and
\* exactly one to the chunk; no pair is ever linked twice.
IdempotentLinking ==
  [][ \A w \in Workers :
        StepAt(w, "EntitiesUpserted") =>
          LET b == Visible(db, tx[w])
              a == Visible(db', tx'[w])
              data == turn[w].extraction.triples
              idByKey == entity_id_by_key(b.ent, turn[w].cache)
          IN /\ pc'[w] = "TriplesLinked"
             /\ \A f \in {"sl", "cl"} :
                  /\ \A i \in DOMAIN b[f] : i \in DOMAIN a[f] /\ a[f][i] = b[f][i]
                  /\ \A i, j \in DOMAIN a[f] :
                       (a[f][i].triple_id = a[f][j].triple_id
                          /\ a[f][i].other_id = a[f][j].other_id) => i = j
             /\ \A j \in 1..Len(data) :
                  Persistable(data[j], idByKey) =>
                    \E t \in DOMAIN a.tri :
                      /\ TripleKeyOf(a.tri[t]) = CandKey(data[j], idByKey)
                      /\ Cardinality(LinksOf(a.sl, t, turn[w].sid)) = 1
                      /\ Cardinality(LinksOf(a.cl, t, turn[w].cid)) = 1
    ]_vars

\* a triple linked to the session by an earlier committed turn was observed
\* again in this turn (it is linked to this turn's chunk), and within the
\* turn it was observed twice
WitnessIdempotentLinking ==
  \E w \in Workers :
    /\ pc[w] = "TriplesLinked"
    /\ LET data == turn[w].extraction.triples
           idByKey == entity_id_by_key(Visible(db, tx[w]).ent, turn[w].cache)
       IN /\ Len(data) = 2
          /\ Persistable(data[1], idByKey) /\ Persistable(data[2], idByKey)
          /\ CandKey(data[1], idByKey) = CandKey(data[2], idByKey)
          /\ \E t \in DOMAIN db.tri :
               /\ TripleKeyOf(db.tri[t]) = CandKey(data[1], idByKey)
               /\ LinksOf(db.sl, t, turn[w].sid) # {}
               /\ LinksOf(tx[w].cl, t, turn[w].cid) # {}
               /\ LinksOf(tx[w].sl, t, turn[w].sid) = {}

\* C10: a candidate triple is persisted only if the canonical key of its
\* subject is the key of an entity mention of the same extraction: every
\* triple linked to the turn's chunk has a subject declared in the batch.
SubjectDeclaredInBatch ==
  \A w \in Workers :
    pc[w] = "TriplesLinked" =>
      LET v == Visible(db, tx[w])
          data == turn[w].extraction.entities
          declared == {MentionKey(data[m]) : m \in ValidMentions(data)}
      IN \A l \in DOMAIN v.cl :
           v.cl[l].other_id = turn[w].cid =>
             EntityKeyOf(v.ent[v.tri[v.cl[l].triple_id].subject_entity_id]) \in declared

\* keys of the entity mentions declared by an extraction batch
DeclaredKeys(data) == {MentionKey(data[m]) : m \in ValidMentions(data)}

\* C11: a candidate with a resolved subject and a relation label whose
\* object is named but is no entity declared by the batch is not dropped: the
\* triple step ends normally and leaves a triple row with that subject, that
\* relation and no object entity, linked to the turn's chunk and summary.
UnresolvedObjectTolerated ==
  [][ \A w \in Workers :
        StepAt(w, "EntitiesUpserted") =>
          LET b == Visible(db, tx[w])
              a == Visible(db', tx'[w])
              data == turn[w].extraction.triples
              idByKey == entity_id_by_key(b.ent, turn[w].cache)
              declared == DeclaredKeys(turn[w].extraction.entities)
          IN \A j \in 1..Len(data) :
               (/\ Persistable(data[j], idByKey)
                /\ ObjName(data[j]) # <<>>
                /\ ObjKey(data[j]) \notin declared) =>
                  /\ pc'[w] = "TriplesLinked"
                  /\ \E t \in DOMAIN a.tri :
                       /\ TripleKeyOf(a.tri[t]) =
                            make_triple_key(idByKey[SubjKey(data[j])], RelType(data[j]), NoId)
                       /\ LinksOf(a.sl, t, turn[w].sid) # {}
                       /\ LinksOf(a.cl, t, turn[w].cid) # {}
    ]_vars

\* rows of a triple table with the dedup key k
RowsOfKey(tri, k) == {i \in DOMAIN tri : TripleKeyOf(tri[i]) = k}

\* C12: with turns run one after another no two committed Triple rows share
\* the dedup key.  The triple step leaves, for every candidate it does not
\* skip, exactly one row with the candidate's key: the row stored before if
\* there was one (its last_seen_at refreshed), else one new row shared by all
\* candidates of the batch with that key.
TripleDedup ==
  [][ /\ \A i, j \in DOMAIN db'.tri :
           TripleKeyOf(db'.tri[i]) = TripleKeyOf(db'.tri[j]) => i = j
      /\ \A w \in Workers :
           StepAt(w, "EntitiesUpserted") =>
             LET b == Visible(db, tx[w])
                 a == Visible(db', tx'[w])
                 data == turn[w].extraction.triples
                 idByKey == entity_id_by_key(b.ent, turn[w].cache)
             IN /\ pc'[w] = "TriplesLinked"
                /\ \A j \in 1..Len(data) :
                     Persistable(data[j], idByKey) =>
                       LET k == CandKey(data[j], idByKey)
                       IN /\ Cardinality(RowsOfKey(a.tri, k)) = 1
                          /\ RowsOfKey(b.tri, k) \subseteq RowsOfKey(a.tri, k)
                          /\ \A t \in RowsOfKey(a.tri, k) :
                               a.tri[t].last_seen_at = turn[w].now
    ]_vars

\* a batch whose two candidates spell one key differently ("R" and "r "),
\* met by a run that found a committed row with that key: one row, refreshed
WitnessTripleDedup ==
  \E w \in Workers :
    /\ pc[w] = "TriplesLinked"
    /\ LET data == turn[w].extraction.triples
           v == Visible(db, tx[w])
           idByKey == entity_id_by_key(v.ent, turn[w].cache)
       IN /\ Len(data) = 2
          /\ Persistable(data[1], idByKey) /\ Persistable(data[2], idByKey)
          /\ data[1].relation_type # data[2].relation_type
          /\ CandKey(data[1], idByKey) = CandKey(data[2], idByKey)
          /\ \E t \in DOMAIN db.tri :
               /\ RowsOfKey(v.tri, CandKey(data[1], idByKey)) = {t}
               /\ db.tri[t].last_seen_at < turn[w].now
               /\ v.tri[t].last_seen_at = turn[w].now

\* C13: at no reachable state do two committed Triple rows have the same
\* dedup key, also when turns of different conversations that share the
\* subject entity insert the same triple concurrently.
TripleKeyUnique ==
  \A i, j \in DOMAIN db.tri :
    TripleKeyOf(db.tri[i]) = TripleKeyOf(db.tri[j]) => i = j

\* indexes of the messages of a role
IndexesOf(messages, role) == {i \in 1..Len(messages) : messages[i].role = role}
\* the step is the call of update_memory_after_turn served in slot w
StartOf(w) == turns' = turns + 1 /\ FreeSlot(w)
LatestAssistant(messages) == SetMax(IndexesOf(messages, "assistant"))
LatestUser(messages) ==
  SetMax({i \in IndexesOf(messages, "user") : i < LatestAssistant(messages)})
HasPair(messages) ==
  \E a \in IndexesOf(messages, "assistant") :
    \E u \in IndexesOf(messages, "user") : u < a

\* C14: whenever the conversation has an assistant message with a user
\* message before it, the pair selected is the last assistant message and
\* the last user message before it (adjacent or not); the chunk's text is
\* "user: <user content>\nassistant: <assistant content>" of that pair and
\* its timestamp is the assistant message's timestamp.
PairSelection ==
  [][ \A w \in Workers :
        /\ StartOf(w) =>
             LET m == conv[turn'[w].conv]
             IN HasPair(m) =>
                  /\ pc'[w] = "PairFound"
                  /\ turn'[w].pair = <<LatestUser(m), LatestAssistant(m)>>
        /\ (StepAt(w, "SummaryReady") /\ pc'[w] = "ChunkCreated") =>
             LET m == conv[turn[w].conv]
                 row == tx'[w].chunk[turn'[w].cid]
             IN /\ row.text = <<"user: ", m[LatestUser(m)].content,
                                "\nassistant: ", m[LatestAssistant(m)].content>>
                /\ row.timestamp = m[LatestAssistant(m)].timestamp
    ]_vars

\* the conversation [system, user: hi, assistant: hello, user: bye,
\* assistant: goodbye] and its chunk "user: bye\nassistant: goodbye"
WitnessPairSelection ==
  \E w \in Workers :
    /\ pc[w] = "ChunkCreated"
    /\ LET m == conv[turn[w].conv]
       IN /\ [i \in 1..Len(m) |-> m[i].role] =
               <<"system", "user", "assistant", "user", "assistant">>
          /\ [i \in 1..Len(m) |-> m[i].content] =
               <<"sys", "hi", "hello", "bye", "goodbye">>
          /\ tx[w].chunk[turn[w].cid].text =
               <<"user: ", "bye", "\nassistant: ", "goodbye">>
          /\ tx[w].chunk[turn[w].cid].timestamp = m[5].timestamp

\* C15: a call on a conversation with fewer than 2 messages, with no
\* assistant message, or with no user message before the last assistant
\* message ends in NoPair and returns: the committed store is unchanged, the
\* session has written nothing, and no extraction, commit or rollback call
\* was made; nothing happens in the run afterwards.
SkipCondition ==
  [][ \A w \in Workers :
        /\ (StartOf(w) /\ ~HasPair(conv[turn'[w].conv])) =>
             /\ pc'[w] = "NoPair"
             /\ outcome'[w] = "returned"
             /\ db' = db
             /\ tx'[w] = EmptyTx
             /\ calls'[w] = <<>>
        /\ (pc[w] = "NoPair" /\ ~StartOf(w)) =>
             /\ pc'[w] = "NoPair"
             /\ tx'[w] = EmptyTx
             /\ calls'[w] = <<>>
    ]_vars

\* a conversation of a system message and one user message, no reply yet
WitnessSkipCondition ==
  \E w \in Workers :
    /\ pc[w] = "NoPair"
    /\ LET m == conv[turn[w].conv]
       IN [i \in 1..Len(m) |-> m[i].role] = <<"system", "user">>
    /\ calls[w] = <<>>

\* the order of the steps of one turn
NextStep ==
  { <<"PairFound", "SummaryReady">>, <<"SummaryReady", "ChunkCreated">>,
    <<"ChunkCreated", "Extracted">>, <<"Extracted", "EntitiesUpserted">>,
    <<"EntitiesUpserted", "TriplesLinked">>, <<"TriplesLinked", "SummaryMerged">>,
    <<"SummaryMerged", "CommitDone">>, <<"CommitDone", "Committed">> }

\* C16: within one turn the steps occur in the order pair found, summary,
\* chunk, extraction, entities, triples and links, summary merge, commit; a
\* step that fails before the commit ends the turn at once (a run ended by
\* an exception that escapes is counted as ended here); once the commit is
\* done the turn only returns, it is never rolled back; NoPair, Committed
\* and Failed are terminal.
StrictOrder ==
  [][ \A w \in Workers :
        ~StartOf(w) =>
          /\ pc'[w] # pc[w] =>
               \/ <<pc[w], pc'[w]>> \in NextStep
               \/ pc[w] \in InTry \ {"CommitDone"} /\ pc'[w] \in {"Failed", "Raised"}
          /\ pc[w] \in {"CommitDone", "Committed"} =>
               "rollback" \notin ListToSet(calls'[w])
          /\ pc[w] \in {"NoPair", "Committed", "Failed"} =>
               /\ pc'[w] = pc[w]
               /\ calls'[w] = calls[w]
               /\ tx'[w] = tx[w]
    ]_vars

\* get_or_create_session_summary as one step of a run
SummaryLoaded(w) == pc[w] = "PairFound" /\ pc'[w] = "SummaryReady"

\* C17: the committed store holds at most one session summary row per
\* conversation, and a row of a conversation only if a turn of that
\* conversation has committed (every committed turn leaves its chunk);
\* get_or_create_session_summary returns the conversation's row when the
\* session sees one and inserts nothing, and inserts one row for the
\* conversation when it sees none.
OneSummaryPerConversation ==
  /\ [](/\ \A c \in Convs : Cardinality(SummaryOf(db.sum, c)) <= 1
        /\ \A i \in DOMAIN db.sum :
             \E j \in DOMAIN db.chunk :
               db.chunk[j].conversation_id = db.sum[i].conversation_id)
  /\ [][ \A w \in Workers :
          SummaryLoaded(w) =>
            LET before == Visible(db, tx[w]).sum
                after == Visible(db', tx'[w]).sum
                c == turn[w].conv
                sid == turn'[w].sid
            IN IF SummaryOf(before, c) # {}
               THEN /\ sid \in SummaryOf(before, c)
                    /\ DOMAIN after = DOMAIN before
               ELSE /\ sid \notin DOMAIN before
                    /\ DOMAIN after = DOMAIN before \cup {sid}
                    /\ after[sid].conversation_id = c
      ]_vars

\* two turns of one conversation have committed, the second one found the
\* row of the first
WitnessOneSummaryPerConversation ==
  \E c \in Convs :
    /\ Cardinality({j \in DOMAIN db.chunk : db.chunk[j].conversation_id = c}) = 2
    /\ Cardinality(SummaryOf(db.sum, c)) = 1

\* a turn's commit as one step of a run
Committing(w) == pc[w] = "SummaryMerged" /\ pc'[w] = "CommitDone"

\* the committed summary row of conversation c in store d, if any
CommittedSummary(d, c) ==
  IF SummaryOf(d.sum, c) = {} THEN <<>>
  ELSE <<d.sum[CHOOSE i \in SummaryOf(d.sum, c) : TRUE]>>

IsNonEmptyString(v) == v # None /\ v # <<>> /\ ~IsJsonNumber(v)

\* C18: a committed turn leaves summary_text equal to the turn's extracted
\* summary_text if that is a non-empty string, and equal to the summary_text
\* committed before otherwise (none for a conversation's first turn); a
\* non-empty summary_text is never followed by an empty one.
SummaryTextKept ==
  [][ \A w \in Workers :
        Committing(w) =>
          LET c == turn[w].conv
              x == turn[w].extraction.session_summary.summary_text
              before == CommittedSummary(db, c)
              old == IF before = <<>> THEN None ELSE before[1].summary_text
              new == CommittedSummary(db', c)[1].summary_text
          IN /\ new = IF IsNonEmptyString(x) THEN x ELSE old
             /\ IsNonEmptyString(old) => IsNonEmptyString(new)
    ]_vars

\* stored is old united with the non-empty entries of given, without an empty
\* entry and without a duplicate
IsUnion(stored, old, given) ==
  /\ ListToSet(stored) = ListToSet(old) \cup (ListToSet(given) \ {""})
  /\ "" \notin ListToSet(stored)
  /\ Len(stored) = Cardinality(ListToSet(stored))

\* C19: a committed turn leaves the summary's keywords equal, as a set, to
\* the keywords committed before (none for a conversation's first turn)
\* united with the non-empty entries of the extracted list, and likewise the
\* themes; the stored lists hold no empty entry and no duplicate.
KeywordUnion ==
  [][ \A w \in Workers :
        Committing(w) =>
          LET c == turn[w].conv
              x == turn[w].extraction.session_summary
              before == CommittedSummary(db, c)
              new == CommittedSummary(db', c)[1]
          IN /\ IsUnion(new.keywords,
                        IF before = <<>> THEN <<>> ELSE before[1].keywords, x.keywords)
             /\ IsUnion(new.themes,
                        IF before = <<>> THEN <<>> ELSE before[1].themes, x.themes)
    ]_vars

\* a turn that extracted the keywords "", "y" has committed on a summary
\* that held the keyword "x"
WitnessKeywordUnion ==
  /\ pc["w1"] = "CommitDone"
  /\ turn["w1"].extraction.session_summary.keywords = <<"", "y">>
  /\ turn["w1"].extraction.session_summary.themes = <<"">>
  /\ LET row == CommittedSummary(db, turn["w1"].conv)[1]
     IN /\ ListToSet(row.keywords) = {"x", "y"}
        /\ row.themes = <<"z">>

\* C20: a committed turn leaves the summary's start_time at the first
\* message's timestamp and its end_time at the last message's timestamp, so
\* the span covers the timestamp of every message of the conversation and
\* end_time is not before the end_time committed earlier;
\* get_or_create_session_summary on an existing row sets end_time to the
\* last message's timestamp and updated_at to the current time, before the
\* extraction call is made.
TimeSpan ==
  [][ \A w \in Workers :
        LET c == turn[w].conv
            m == conv[c]
        IN /\ Committing(w) =>
                LET before == CommittedSummary(db, c)
                    new == CommittedSummary(db', c)[1]
                IN /\ m # <<>>
                   /\ new.start_time = m[1].timestamp
                   /\ new.end_time = m[Len(m)].timestamp
                   /\ \A i \in 1..Len(m) :
                        /\ new.start_time <= m[i].timestamp
                        /\ m[i].timestamp <= new.end_time
                   /\ before # <<>> => before[1].end_time <= new.end_time
           /\ (SummaryLoaded(w) /\ SummaryOf(Visible(db, tx[w]).sum, c) # {}) =>
                LET old == Visible(db, tx[w]).sum[turn'[w].sid]
                    row == Visible(db', tx'[w]).sum[turn'[w].sid]
                IN /\ row.end_time = m[Len(m)].timestamp
                   /\ row.updated_at = turn[w].now
                   /\ row.updated_at > old.updated_at
                   /\ row.start_time = old.start_time
                   /\ calls'[w] = <<>>
    ]_vars

\* the second turn of a conversation that starts with a system message has
\* committed, on a later pair than the first turn
WitnessTimeSpan ==
  LET m == conv["c1"]
      row == CommittedSummary(db, "c1")
  IN /\ pc["w1"] = "CommitDone"
     /\ Len(m) = MaxMessages
     /\ m[1].role = "system"
     /\ Cardinality({db.chunk[j].timestamp : j \in DOMAIN db.chunk}) = 2
     /\ row # <<>>
     /\ row[1].start_time = m[1].timestamp
     /\ row[1].end_time = m[Len(m)].timestamp

\* positions of the candidates of a batch that are not skipped, have the dedup
\* key k and give a non-null is_state
StateGiven(data, idByKey, k) ==
  {j \in 1..Len(data) :
     /\ Persistable(data[j], idByKey)
     /\ CandKey(data[j], idByKey) = k
     /\ data[j].is_state # "null"}

\* C21: after the triple step the is_state of a triple is the last non-null
\* is_state the batch gave for its key; if the batch gave none it is the
\* value stored before for a re-observed triple and false for a new one.
\* Rows the batch does not observe keep their is_state.
StateFollowsLatest ==
  [][ \A w \in Workers :
        (StepAt(w, "EntitiesUpserted") /\ pc'[w] = "TriplesLinked") =>
          LET before == Visible(db, tx[w]).tri
              after == Visible(db', tx'[w]).tri
              data == turn[w].extraction.triples
              idByKey == entity_id_by_key(Visible(db, tx[w]).ent, turn[w].cache)
          IN \A i \in DOMAIN after :
               LET given == StateGiven(data, idByKey, TripleKeyOf(after[i]))
               IN after[i].is_state =
                    IF given # {} THEN data[SetMax(given)].is_state = "true"
                    ELSE IF i \in DOMAIN before THEN before[i].is_state
                    ELSE FALSE
    ]_vars

\* a committed triple stored as a state was observed again by a batch that
\* gives false and then null for its key: it is no state any more
WitnessStateFollowsLatest ==
  \E w \in Workers :
    /\ pc[w] = "TriplesLinked"
    /\ LET data == turn[w].extraction.triples
           v == Visible(db, tx[w])
           idByKey == entity_id_by_key(v.ent, turn[w].cache)
       IN /\ Len(data) = 2
          /\ Persistable(data[1], idByKey) /\ Persistable(data[2], idByKey)
          /\ CandKey(data[1], idByKey) = CandKey(data[2], idByKey)
          /\ data[1].is_state = "false" /\ data[2].is_state = "null"
          /\ \E t \in DOMAIN db.tri :
               /\ TripleKeyOf(db.tri[t]) = CandKey(data[1], idByKey)
               /\ db.tri[t].is_state = TRUE
               /\ v.tri[t].is_state = FALSE

\* C22: extract_memory fails with an AppError when the response is no JSON
\* text or its top level is no object; for every top-level object it returns
\* an object whose session_summary is an object and whose entities and
\* triples are arrays: the response's value where the key has a value of that
\* type, and the empty object or array where the key is missing or has a
\* value of another type.
ClientContract ==
  [][ \A w \in Workers :
        (pc[w] = "Responded" /\ pc'[w] # "Responded") =>
          LET raw == turn[w].raw
              x == turn'[w].extraction
          IN IF raw.top # "object"
             THEN /\ err'[w] = "MalformedExtraction"
                  /\ pc'[w] \in {"Failed", "Raised"}
             ELSE /\ pc'[w] = "Extracted"
                  /\ err'[w] = "none"
                  /\ turn'[w].shape.session_summary = "object"
                  /\ turn'[w].shape.entities = "array"
                  /\ turn'[w].shape.triples = "array"
                  /\ x.entities =
                       IF raw.kinds.entities = "array" THEN raw.entities ELSE <<>>
                  /\ x.triples =
                       IF raw.kinds.triples = "array" THEN raw.triples ELSE <<>>
                  /\ x.session_summary =
                       IF raw.kinds.session_summary = "object"
                       THEN raw.session_summary ELSE EmptySummaryData
    ]_vars

\* a response without the key entities and with null for session_summary was
\* accepted, and the turn went on to commit the triple-less result
WitnessClientContract ==
  /\ pc["w1"] = "CommitDone"
  /\ turn["w1"].raw.top = "object"
  /\ turn["w1"].raw.kinds =
       [k \in Keys |-> IF k = "entities" THEN "missing"
                       ELSE IF k = "session_summary" THEN "null" ELSE "array"]
  /\ turn["w1"].extraction.entities = <<>>
  /\ turn["w1"].extraction.session_summary = EmptySummaryData
  /\ turn["w1"].extraction.triples # <<>>
  /\ db.tri = EmptyMap

\* number of calls of one kind a run has made
CallCount(w, kind) == Cardinality({i \in 1..Len(calls[w]) : calls[w][i] = kind})

\* the step in which the extraction call of w fails: the request itself, or
\* the use of its response
ExtractionFails(w) ==
  /\ pc[w] \in {"ChunkCreated", "Responded"}
  /\ pc'[w] \notin {"ChunkCreated", "Responded", "Extracted"}

EntityLifetime ==
  [][ /\ \A i \in DOMAIN db.ent :
           /\ i \in DOMAIN db'.ent
           /\ db'.ent[i].first_seen_at = db.ent[i].first_seen_at
           /\ db'.ent[i].last_seen_at >= db.ent[i].last_seen_at
      /\ \A i \in DOMAIN db'.ent : db'.ent[i].last_seen_at >= db'.ent[i].first_seen_at
      /\ \A w \in Workers :
           Committing(w) =>
             LET data == turn[w].extraction.entities
             IN \A m \in ValidMentions(data) : \A i \in DOMAIN db.ent :
                  EntityKeyOf(db.ent[i]) = MentionKey(data[m]) =>
                    db'.ent[i].last_seen_at = turn[w].now
    ]_vars

\* C25: the committed chunks change only in the commit of a turn, which adds
\* exactly one row: for the turn's conversation, with the text
\* "user: <user content>\nassistant: <assistant content>" of the selected
\* pair and with the id of the conversation's summary; every other step (a
\* failure, a skipped call among them) adds none, and no step changes or
\* removes a committed chunk.
OneChunkPerTurn ==
  [][ /\ \A j \in DOMAIN db.chunk : j \in DOMAIN db'.chunk /\ db'.chunk[j] = db.chunk[j]
      /\ (\A w \in Workers : ~Committing(w)) => DOMAIN db'.chunk = DOMAIN db.chunk
      /\ \A w \in Workers :
           Committing(w) =>
             LET c == turn[w].conv
                 m == conv[c]
                 new == DOMAIN db'.chunk \ DOMAIN db.chunk
             IN /\ Cardinality(new) = 1
                /\ \A j \in new :
                     /\ db'.chunk[j].conversation_id = c
                     /\ db'.chunk[j].text =
                          <<"user: ", m[LatestUser(m)].content,
                            "\nassistant: ", m[LatestAssistant(m)].content>>
                     /\ SummaryOf(db'.sum, c) = {db'.chunk[j].session_summary_id}
    ]_vars

\* the second turn of a conversation has committed its chunk, for a later
\* pair, next to the first turn's
WitnessOneChunkPerTurn ==
  /\ pc["w1"] = "CommitDone"
  /\ Cardinality(DOMAIN db.chunk) = 2
  /\ Cardinality({db.chunk[j].text : j \in DOMAIN db.chunk}) = 2
  /\ \A j \in DOMAIN db.chunk : SummaryOf(db.sum, "c1") = {db.chunk[j].session_summary_id}

\* C26: every committed Triple row has a subject_entity_id that is the id of
\* a committed Entity row, and an object_entity_id that is null or the id of
\* a committed Entity row.
TripleReferences ==
  \A i \in DOMAIN db.tri :
    /\ db.tri[i].subject_entity_id # NoId
    /\ db.tri[i].subject_entity_id \in DOMAIN db.ent
    /\ \/ db.tri[i].object_entity_id = NoId
       \/ db.tri[i].object_entity_id \in DOMAIN db.ent

\* a committed triple whose object is an entity and one whose object named no
\* entity, both with a committed subject
WitnessTripleReferences ==
  \E i, j \in DOMAIN db.tri :
    /\ db.tri[i].object_entity_id \in DOMAIN db.ent
    /\ db.tri[j].object_entity_id = NoId
    /\ db.tri[i].subject_entity_id = db.tri[j].subject_entity_id
    /\ db.tri[i].subject_entity_id \in DOMAIN db.ent

\* a mention with a name, a candidate with a subject name and a relation
NamedMention(e) == Strip(OrEmpty(e.canonical_name)) # <<>>
UsableCand(t) ==
  /\ Strip(OrEmpty(t.subject)) # <<>>
  /\ Strip(OrEmpty(t.relation_type)) # <<>>

\* C27: invalid extraction items are dropped without failing the turn.  The
\* entity step does not raise on a batch with nameless mentions: every row
\* it creates or changes is the row of a mention that has a name, no map
\* entry has the key of a nameless mention, and every named mention of the
\* batch has its map entry and its row seen at the time of the turn.  The
\* triple step does not raise on a batch with candidates that lack a subject
\* name or a relation type: every triple row it creates or changes has the
\* relation of a usable candidate, every link row it creates is a link of
\* such a triple, and every usable candidate with a declared subject has its
\* row, linked to the summary and to the chunk.  What the steps wrote is
\* what the commit of the turn makes durable.
InvalidItemsDropped ==
  [][\A w \in Workers :
       /\ StepAt(w, "Extracted") =>
            LET data == turn[w].extraction.entities
                before == Visible(db, tx[w]).ent
                after == Visible(db', tx'[w]).ent
                named == {j \in 1..Len(data) : NamedMention(data[j])}
                cache == turn'[w].cache
            IN /\ pc'[w] = "EntitiesUpserted"
               /\ \A i \in DOMAIN after :
                    (i \notin DOMAIN before \/ after[i] # before[i]) =>
                       \E j \in named :
                          /\ make_entity_key(after[i].canonical_name, after[i].entity_type)
                               = make_entity_key(data[j].canonical_name, data[j].entity_type)
                          /\ after[i].canonical_name # <<>>
               /\ \A j \in 1..Len(data) \ named :
                    make_entity_key(data[j].canonical_name, data[j].entity_type)
                      \notin DOMAIN cache
               /\ \A j \in named :
                    LET k == make_entity_key(data[j].canonical_name, data[j].entity_type)
                    IN /\ k \in DOMAIN cache
                       /\ cache[k] \in DOMAIN after
                       /\ after[cache[k]].last_seen_at = turn[w].now
       /\ StepAt(w, "EntitiesUpserted") =>
            LET data == turn[w].extraction.triples
                v == Visible(db, tx[w])
                v2 == Visible(db', tx'[w])
                usable == {j \in 1..Len(data) : UsableCand(data[j])}
                touched == {i \in DOMAIN v2.tri :
                              i \notin DOMAIN v.tri \/ v2.tri[i] # v.tri[i]}
                idByKey == entity_id_by_key(v.ent, turn[w].cache)
            IN /\ pc'[w] = "TriplesLinked"
               /\ \A i \in touched :
                    /\ v2.tri[i].relation_type # <<>>
                    /\ \E j \in usable :
                         v2.tri[i].relation_type = Strip(data[j].relation_type)
               /\ \A i \in (DOMAIN v2.sl \ DOMAIN v.sl) : v2.sl[i].triple_id \in touched
               /\ \A i \in (DOMAIN v2.cl \ DOMAIN v.cl) : v2.cl[i].triple_id \in touched
               /\ \A j \in usable :
                    make_entity_key(data[j].subject, data[j].subject_type) \in DOMAIN idByKey =>
                      \E i \in touched :
                         /\ v2.tri[i].relation_type = Strip(data[j].relation_type)
                         /\ v2.tri[i].last_seen_at = turn[w].now
                         /\ LinkExists(v2.sl, i, turn[w].sid)
                         /\ LinkExists(v2.cl, i, turn[w].cid)
       /\ Committing(w) => db' = Visible(db, tx[w])
   ]_vars

\* a turn has committed whose batches held a nameless mention before a named
\* one and an unusable candidate before a usable one: the store has the one
\* entity and the one triple, linked to the turn's chunk
WitnessInvalidItemsDropped ==
  /\ pc["w1"] = "CommitDone"
  /\ LET e == turn["w1"].extraction.entities
         t == turn["w1"].extraction.triples
     IN /\ Len(e) = 2 /\ ~NamedMention(e[1]) /\ NamedMention(e[2])
        /\ Len(t) = 2 /\ ~UsableCand(t[1]) /\ UsableCand(t[2])
  /\ Cardinality(DOMAIN db.ent) = 1
  /\ Cardinality(DOMAIN db.tri) = 1
  /\ \E i \in DOMAIN db.tri : LinkExists(db.cl, i, turn["w1"].cid)

\* a stored score is null or within [0, 1] (scores are counted in tenths)
InUnitRange(score) == score = <<>> \/ (score[1] >= 0 /\ score[1] <= 10)

\* C28: in every committed state each Triple's importance and confidence is
\* null or a number within [0, 1], whatever numbers the extraction returned.
ScoreRange ==
  \A i \in DOMAIN db.tri :
    InUnitRange(db.tri[i].importance) /\ InUnitRange(db.tri[i].confidence)

\* C30: chat request errors keep their status.  A request that carries no
\* message is answered with 422, a /continue with no conversation id and no
\* previous conversation with 400, a /continue naming an unknown conversation
\* with 404; none of them calls the LLM or changes a stored conversation.
RequestErrorsKeepStatus ==
  [][\A req \in Requests :
       (api'.req = req /\ chats' = chats + 1) =>
         LET noMessage == req.message = None /\ req.messages = <<>>
             id == IF req.conversation_id # NoConv THEN req.conversation_id ELSE api.latest
             refused == api'.llm = api.llm /\ conv' = conv /\ api'.created = api.created
         IN /\ noMessage => api'.status = 422 /\ refused
            /\ (~noMessage /\ req.endpoint = "continue" /\ id = NoConv) =>
                  api'.status = 400 /\ refused
            /\ (~noMessage /\ req.endpoint = "continue" /\ id # NoConv
                  /\ id \notin api.created) =>
                  api'.status = 404 /\ refused
   ]_vars

\* update_memory_after_turn has been invoked for conversation c
Invoked(c) == \E w \in Workers : pc[w] # "Idle" /\ turn[w].conv = c

\* C29: memory consolidation is triggered by the chat layer.  A /newchat or
\* /continue request that was answered with a reply is followed by an
\* invocation of update_memory_after_turn for its conversation.
ConsolidationTriggered ==
  \A c \in Convs : (api.status = 200 /\ api.conv = c) ~> Invoked(c)

\* C31: a successful chat turn.  A request answered with 200 has called
\* llm.chat once, with the stored messages of its conversation followed by
\* its user message, and leaves the stored conversation extended by exactly
\* that user message followed by the reply it returned.
SuccessfulChatTurn ==
  [][\A req \in Requests :
       (api'.req = req /\ chats' = chats + 1 /\ api'.status = 200) =>
         LET c == api'.conv
             user == IF req.message # None THEN req.message[1]
                     ELSE req.messages[Len(req.messages)].content
             asked == [role |-> "user", content |-> user]
             answered == [role |-> "assistant", content |-> api'.reply]
         IN /\ api'.llm = api.llm + 1
            /\ api'.history = Append(Contents(conv[c]), asked)
            /\ api'.reply \in {"ok", "no"}
            /\ Contents(conv'[c]) = Contents(conv[c]) \o <<asked, answered>>
            /\ \A d \in Convs \ {c} : conv'[d] = conv[d]
   ]_vars

\* C32: with no concurrent writer the entity step never attempts an insert
\* that violates the (canonical_name, entity_type) unique constraint: it does
\* not fail, and every row it inserts has a (canonical_name, entity_type)
\* that no row visible before the step has.
NoDuplicateInsert ==
  [][\A w \in Workers :
       StepAt(w, "Extracted") =>
         LET before == Visible(db, tx[w]).ent
             after == Visible(db', tx'[w]).ent
         IN /\ pc'[w] = "EntitiesUpserted"
            /\ \A i \in DOMAIN after \ DOMAIN before :
                 \A j \in DOMAIN before :
                    \/ after[i].canonical_name # before[j].canonical_name
                    \/ after[i].entity_type # before[j].entity_type
   ]_vars

\* C33: provenance.  Every committed Triple row has a TripleSessionLink and a
\* TripleChunkLink, and for every committed TripleChunkLink (t, c) the chunk c
\* is committed and t is linked to the session summary that c belongs to.
Provenance ==
  /\ \A t \in DOMAIN db.tri :
       /\ \E i \in DOMAIN db.sl : db.sl[i].triple_id = t
       /\ \E i \in DOMAIN db.cl : db.cl[i].triple_id = t
  /\ \A i \in DOMAIN db.cl :
       /\ db.cl[i].other_id \in DOMAIN db.chunk
       /\ \E j \in DOMAIN db.sl :
            /\ db.sl[j].triple_id = db.cl[i].triple_id
            /\ db.sl[j].other_id = db.chunk[db.cl[i].other_id].session_summary_id

\* a committed triple that a second turn observed again: it is linked to the
\* chunks of both turns
WitnessProvenance ==
  \E t \in DOMAIN db.tri : \E i, j \in DOMAIN db.cl :
    /\ db.cl[i].triple_id = t /\ db.cl[j].triple_id = t
    /\ db.cl[i].other_id # db.cl[j].other_id
    /\ db.tri[t].last_seen_at > db.tri[t].first_seen_at

\* the candidate names the stored row: same subject, same relation up to
\* case and surrounding blanks, same object id
Matches(t, row, idByKey) ==
  /\ Strip(OrEmpty(t.subject)) # <<>> /\ Strip(OrEmpty(t.relation_type)) # <<>>
  /\ make_entity_key(t.subject, t.subject_type) \in DOMAIN idByKey
  /\ idByKey[make_entity_key(t.subject, t.subject_type)] = row.subject_entity_id
  /\ Lower(Strip(t.relation_type)) = Lower(Strip(row.relation_type))
  /\ row.object_entity_id =
       IF Strip(OrEmpty(t.object)) # <<>>
          /\ make_entity_key(t.object, t.object_type) \in DOMAIN idByKey
       THEN idByKey[make_entity_key(t.object, t.object_type)] ELSE NoId

\* C34: the frame of a re-observation.  The triple step leaves id,
\* subject_entity_id, object_entity_id, relation_type, relation_text and
\* first_seen_at of every stored Triple row as they are, removes no row, and
\* changes a stored row only if a candidate of the batch matches it.
ReobservationFrame ==
  [][\A w \in Workers :
       StepAt(w, "EntitiesUpserted") =>
         LET b == Visible(db, tx[w])
             a == Visible(db', tx'[w])
             data == turn[w].extraction.triples
             idByKey == entity_id_by_key(b.ent, turn[w].cache)
         IN \A i \in DOMAIN b.tri :
              /\ i \in DOMAIN a.tri
              /\ \A f \in {"id", "subject_entity_id", "object_entity_id",
                            "relation_type", "relation_text", "first_seen_at"} :
                   a.tri[i][f] = b.tri[i][f]
              /\ a.tri[i] # b.tri[i] =>
                   \E j \in 1..Len(data) : Matches(data[j], b.tri[i], idByKey)
   ]_vars

\* a run has re-observed a committed triple under another paraphrase and
\* with other scores, next to a committed triple that the batch does not name
WitnessReobservationFrame ==
  /\ pc["w1"] = "TriplesLinked"
  /\ LET v == Visible(db, tx["w1"])
         data == turn["w1"].extraction.triples
     IN \E i, k \in DOMAIN db.tri :
          /\ i # k
          /\ v.tri[k] = db.tri[k]
          /\ v.tri[i] # db.tri[i]
          /\ v.tri[i].importance # db.tri[i].importance
          /\ \E j \in 1..Len(data) : data[j].relation_text # db.tri[i].relation_text

\* the candidate is not skipped and its object names no entity of the batch
Unresolved(t, idByKey) ==
  /\ Strip(OrEmpty(t.subject)) # <<>> /\ Strip(OrEmpty(t.relation_type)) # <<>>
  /\ make_entity_key(t.subject, t.subject_type) \in DOMAIN idByKey
  /\ \/ Strip(OrEmpty(t.object)) = <<>>
     \/ make_entity_key(t.object, t.object_type) \notin DOMAIN idByKey

\* rows without object that have the candidate's subject and its relation up
\* to case
NullObjectRows(tri, t, idByKey) ==
  {i \in DOMAIN tri :
     /\ tri[i].object_entity_id = NoId
     /\ tri[i].subject_entity_id = idByKey[make_entity_key(t.subject, t.subject_type)]
     /\ Lower(Strip(tri[i].relation_type)) = Lower(Strip(t.relation_type))}

\* C35: candidates with one resolved subject and one relation_type up to case
\* whose objects are unresolved share one Triple row, whatever their object
\* names: after the triple step there is exactly one such row, without
\* object; it is the stored one if there was one, and its relation_text is
\* the stored one, else that of the first such candidate of the batch.
UnresolvedShareRow ==
  [][\A w \in Workers :
       StepAt(w, "EntitiesUpserted") =>
         LET b == Visible(db, tx[w])
             a == Visible(db', tx'[w])
             data == turn[w].extraction.triples
             idByKey == entity_id_by_key(b.ent, turn[w].cache)
         IN \A j \in 1..Len(data) :
              Unresolved(data[j], idByKey) =>
                LET old == NullObjectRows(b.tri, data[j], idByKey)
                    new == NullObjectRows(a.tri, data[j], idByKey)
                    alike == {k \in 1..Len(data) :
                                /\ Unresolved(data[k], idByKey)
                                /\ NullObjectRows(a.tri, data[k], idByKey) = new}
                    first == CHOOSE k \in alike : \A m \in alike : k <= m
                IN /\ Cardinality(new) = 1
                   /\ old \subseteq new
                   /\ \A i \in new :
                        /\ a.tri[i].last_seen_at = turn[w].now
                        /\ a.tri[i].relation_text =
                             IF i \in old THEN b.tri[i].relation_text
                             ELSE data[first].relation_text
   ]_vars

\* a batch of two candidates with different object names and spellings of the
\* relation has left one row, with the paraphrase of the first and the higher
\* importance of the second
WitnessUnresolvedShareRow ==
  /\ pc["w1"] = "TriplesLinked"
  /\ LET v == Visible(db, tx["w1"])
         data == turn["w1"].extraction.triples
         idByKey == entity_id_by_key(v.ent, turn["w1"].cache)
     IN /\ Len(data) = 2
        /\ Unresolved(data[1], idByKey) /\ Unresolved(data[2], idByKey)
        /\ data[1].object # data[2].object
        /\ data[1].relation_type # data[2].relation_type
        /\ data[1].relation_text # data[2].relation_text
        /\ Cardinality(DOMAIN v.tri) = 1
        /\ \A i \in DOMAIN v.tri :
             /\ v.tri[i].object_entity_id = NoId
             /\ v.tri[i].relation_text = data[1].relation_text
             /\ v.tri[i].importance = <<9>>

\* the chunk committed last (row ids grow with the runs)
LastChunk(chunk) == CHOOSE i \in DOMAIN chunk : \A j \in DOMAIN chunk : j <= i

\* the run of w repeats the run committed last: same conversation, same pair
\* text (and so the same extraction result)
Repeats(w) ==
  /\ DOMAIN db.chunk # {}
  /\ db.chunk[LastChunk(db.chunk)].conversation_id = turn[w].conv
  /\ db.chunk[LastChunk(db.chunk)].text = tx[w].chunk[turn[w].cid].text

RunTerminates ==
  \A w \in Workers : Active(w) ~> (pc[w] \in {"NoPair", "Committed", "Failed"})

\* C38: the in-memory store is bounded.  After every call the store holds
\* at most max_conversations conversations; a create that exceeds the bound
\* keeps the conversation it made and evicts conversations none of which
\* is newer than one it keeps.
BoundedStore ==
  [][/\ Len(mem'._conversations) <= max_conversations
     /\ Len(mem'.updated_at) # Len(mem.updated_at) =>
          LET created == Len(mem'.updated_at)
              kept == Ids(mem'._conversations)
              evicted == Ids(mem._conversations) \ kept
          IN /\ created \in kept
             /\ \A e \in evicted, k \in kept :
                  mem'.updated_at[e] <= mem'.updated_at[k]]_vars

\* how often a message with this role and content occurs
Occurrences(messages, m) ==
  Cardinality({i \in 1..Len(messages) : messages[i] = m})

\* C39: transcript persistence.  When update_conversation has returned in a
\* chat turn, the stored log of the conversation holds every message of
\* conversation.messages (the messages loaded, the user message, the reply)
\* as often as conversation.messages does, a message that repeats an earlier
\* one included, and no message more often.
TranscriptPersisted ==
  [][\A c \in Convs :
       (chats' = chats + 1 /\ api'.status = 200 /\ api'.conv = c) =>
         LET messages == Append(api'.history,
                                [role |-> "assistant", content |-> api'.reply])
             stored == Contents(conv'[c])
         IN /\ Len(stored) = Len(messages)
            /\ \A i \in 1..Len(messages) :
                 Occurrences(stored, messages[i]) = Occurrences(messages, messages[i])]_vars

\* handler r is suspended on llm.chat at its start, resumed at its end
Suspends(r) ==
  inflight.handler[r].stage # "awaiting" /\ inflight'.handler[r].stage = "awaiting"
Resumes(r) ==
  inflight.handler[r].stage = "awaiting" /\ inflight'.handler[r].stage # "awaiting"

\* C40: the target of /continue with interleaved requests.  A /continue
\* request that names a conversation works on that conversation; one that
\* names none works on the conversation in _latest_conversation_id when the
\* request reads it, which is the conversation of the turn that produced a
\* reply last.  _latest_conversation_id changes only when a handler has got
\* its reply, to that handler's conversation, and a handler writes to no
\* conversation but its target.
ContinueTarget ==
  [][/\ \A r \in Handlers :
          (Suspends(r) /\ inflight'.handler[r].endpoint = "continue") =>
            LET h == inflight'.handler[r]
            IN IF h.named \notin {NoConv, ""}
               THEN h.target = h.named
               ELSE /\ h.target = api.latest
                    /\ inflight.completed # <<>>
                    /\ h.target = inflight.completed[Len(inflight.completed)]
     /\ \A r \in Handlers :
          Resumes(r) =>
            /\ \A c \in Convs \ {inflight.handler[r].target} : conv'[c] = conv[c]
            /\ inflight'.handler[r].status = 200 =>
                 api'.latest = inflight.handler[r].target
     /\ api'.latest # api.latest =>
          \E r \in Handlers : Resumes(r) /\ inflight'.handler[r].status = 200]_vars

\* a /continue request without an id waits for its reply on the conversation
\* that was the latest when it arrived, while the turn of another request on
\* another conversation has completed since
WitnessContinueTarget ==
  \E r \in Handlers :
    /\ inflight.handler[r].stage = "awaiting"
    /\ inflight.handler[r].endpoint = "continue"
    /\ inflight.handler[r].named = NoConv
    /\ api.latest # inflight.handler[r].target
    /\ Len(inflight.completed) = 2

====
